---- MODULE Spec2Model ----
(***************************************************************************)
(* A state-machine model of the osprey streaming platform:                 *)
(*   - the Host -> Worker live-socket transfer of src/main/lib/lib.py      *)
(*     (SocketHandler read loop, Node.transfer_socket, Node.receive_socket) *)
(*   - the Host's pipe reader and automatic shutdown (HostNode)             *)
(*   - the bookmark lock of the read paths of src/lib/database.py           *)
(*   - the write-id discipline (Database.validate_redis_time)               *)
(*   - the playback clock (PlaybackDatabase.time / start / stop)            *)
(* Each part has its own specification over the shared variables; the      *)
(* variables of the other parts are parked at their constructed values.    *)
(***************************************************************************)
EXTENDS Integers, Sequences, FiniteSets, TLC

\* ------------------------------------------------------------------ bounds
MaxReq == 3         \* requests the peer writes to the transferred socket
NumReaders == 2     \* threads that call read_data / read_snapshot on one stream
MaxCalls == 4       \* read calls made in all
MaxCount == 2       \* largest count argument of read_data
NumThreads == 2     \* request threads of a Streamer alive at one time
MaxHandled == 3     \* requests HANDLE dispatches to a Streamer in all
MaxClock == 3       \* wall-clock readings a Streamer can see
MaxPackages == 2    \* SocketPackages a Node receives
MaxTransfers == 3   \* sockets the Host transfers to a starting Worker
MaxEntries == 2     \* entries a writer adds to the stream
SubMs == 2          \* resolution of the written time values: 1/SubMs ms
MaxTime == 7        \* largest written time value, in 1/SubMs ms
MaxWrites == 5      \* rows written to the stream
MaxRows == 2        \* rows in one write_data call
MaxWall == 4        \* wall-clock ms the playback clock is followed for
NumWorkers == 2     \* Workers the Host runs
MaxPending == 2     \* requests handed to HANDLE and not yet executed
MaxServed == 3      \* requests a Node executes in all
MaxOps == 2         \* halt()/shutdown() calls made on one object
BodyLen == 4        \* the content-length a peer declares
MaxSize == 5        \* largest size of a GraphRingBuffer
MaxPoints == 4      \* points written to one GraphRingBuffer
MaxBatch == 2       \* points in one write call
MaxResizes == 2     \* set_size calls on one GraphRingBuffer
MaxWritten == 3     \* write calls on one DataBuffer
MaxFailures == 1    \* shutdowns of a playback backend that fail
MaxSeconds == 2     \* seconds of wall clock followed while saving
MaxLive == 2        \* entries held by the live backend
MaxSaves == 3       \* save calls

\* Python's None
None == "None"

VARIABLES
    \* --- the transferred TCP connection
    sent,           \* number of requests the peer has written so far
    wire,           \* requests in the socket's receive queue, oldest first
    \* --- Host process
    hostExit,       \* HostNode.exit
    hostClose,      \* HostNode.close
    hostSockets,    \* HostNode.sockets: ids of the registered handlers
    hExit,          \* exit flag of the Host's SocketHandler for the connection
    hpc,            \* position of that handler's read-loop thread (_run)
    hostHandled,    \* requests passed to the Host's HANDLE, in order
    hostLate,       \* of those, the ones passed after transfer_socket ran halt()
    xpc,            \* position of the Host thread that runs transfer_socket
    \* --- the pipe Host -> Worker
    pipe,           \* messages in flight, oldest first
    \* --- Worker process
    wrpc,           \* position of the Worker's pipe thread (_run_pipe / receive_socket)
    wpkg,           \* the SocketPackage the pipe thread is unpacking
    wh,             \* the SocketHandler built by unpack: None or [id, name, exit]
    wreq,           \* the Request rebuilt by unpack (None when there is none)
    workerSockets,  \* WorkerNode.sockets: ids of the registered handlers
    workerHandled,  \* requests passed to the Worker's HANDLE, in order
    wlpc,           \* position of the Worker handler's read-loop thread
    wRunAt,         \* length of workerHandled when handler.run() started the loop
    \* --- one Database object, one stream, its Bookmark (src/lib/database.py)
    entries,        \* number of entries of the stream in the backend (ids 1..entries)
    lockHeld,       \* Bookmark._lock is held
    lockBy,         \* number of the call whose lock() acquired it (0: never acquired)
    bm,             \* Bookmark: [first_id, last_id], 0 for None
    ncalls,         \* read calls started so far
    rpc,            \* per reader thread: position inside read_data / read_snapshot
    rcall,          \* per reader thread: number of its current or last call
    rop,            \* per reader thread: "read_data" or "read_snapshot"
    rcount,         \* per reader thread: the count argument (0 for None)
    racq,           \* per reader thread: its call's lock() acquired the lock
    rread,          \* per reader thread: its call read the backend
    rresp,          \* per reader thread: the backend's response (ids)
    series,         \* history: batches each entry was returned in; calls all plain
    rret,           \* per reader thread: how its last call ended
    \* --- the write side of the Bookmark (validate_redis_time)
    bmWrite,        \* Bookmark.write: last written integer millisecond, or None
    bmSeq,          \* Bookmark.seq: last written sequence number, or None
    write_call,     \* the last write_data call with given columns: its data and whether it raised
    lastTime,       \* the time value of the latest write (in 1/SubMs ms)
    produced,       \* the ids validate_redis_time returned, in order
    stored,         \* the ids the backend accepted (XADD), in order
    \* --- PlaybackDatabase clock
    wall,           \* the wall clock time()*1000, in ms
    playback_active,
    playback_speed,
    start_time,         \* wall time playback was last started
    relative_stop_time, \* playback time at which playback was last paused
    stopWall,       \* wall clock at the latest stop() (-1: none yet)
    \* --- HostNode: Worker pipes and automatic shutdown
    automatic_shutdown,
    pipes,          \* HostNode.pipes: ids of the Workers in the index
    toHost,         \* per Worker: messages in its pipe towards the Host
    ppc,            \* per Worker: position of the Host's reader thread of its pipe
    wstate,         \* per Worker: "new", "running", "closed"
    handledShutdown,\* Workers whose SHUTDOWN the Host has handled to the end
    hostWhy         \* what set the Host's flags: "none", "auto" or "throw"

VARIABLES
    \* --- a Node serving the sockets of its index
    nsockets,       \* Node.sockets: the ids in the socket index
    nexit,          \* the exit flag of the handler with each id
    nthreads,       \* requests handed to HANDLE whose _execute thread has not run yet
    nserved,        \* number of requests whose method returned
    nthrown         \* number of calls of Base.throw on the Node

VARIABLES
    \* --- the exit trigger of Base objects
    exitF,          \* Base.exit of each object
    closeF,         \* Base.close of each object
    tpc,            \* where each object's exit-trigger thread is
    cpc,            \* where the thread that calls halt()/shutdown() on the object is
    cleanups,       \* number of executions of cleanup() of each object
    life_sockets,   \* the Node's socket index, as far as the SocketHandler goes
    removes,        \* calls of node.remove_socket made by the SocketHandler's cleanup()
    redundant,      \* calls of remove_socket that found the id gone
    shutdowns,      \* number of shutdown() calls made on each object
    nops            \* number of halt()/shutdown() calls made on each object

VARIABLES
    \* --- a Worker, its source socket and another socket
    wsockets,       \* WorkerNode.sockets: the handler ids in the Worker's index
    hexit,          \* SocketHandler.exit of each handler
    hclose,         \* SocketHandler.close of each handler
    hrun,           \* where each handler's RUN thread (_run) is
    htrig,          \* where each handler's CLEANUP thread (_exit_trigger) is
    wexit,          \* WorkerNode.exit
    wclose,         \* WorkerNode.close
    wtrig,          \* where the Worker's main thread (_exit_trigger, cleanup) is
    wtodo,          \* Node.cleanup: the handlers still to shut down
    wcur,           \* Node.cleanup: the handler being shut down
    sentShutdown    \* number of 'SHUTDOWN' messages the Worker has sent to the Host

VARIABLES
    \* --- a Request encoded by get_data and parsed back
    creq,           \* the Request object handed to SocketHandler.send
    cdata,          \* the bytes get_data returned
    cparsed,        \* what parse_request made of these bytes on the other side
    codec_pc        \* "new", "encoded", "decoded"

VARIABLES
    \* --- a SocketHandler reading frames from its peer
    peer_input,     \* what the peer sends on this connection (fixed at connect)
    unsent,         \* bytes the peer has not sent yet
    pull_buffer,    \* bytes received and not yet read by the handler
    peer_closed,    \* the peer has closed its end: reads reach the end of the stream
    sh_request,     \* self.request, the Request being filled
    parse_pc,       \* where _run is: "loop", "request_line", "header", "validate", "content", "handle", "spinning", "done"
    sh_exit,        \* the handler's exit flag
    sh_close,       \* the handler's close flag
    dispatched      \* the requests handed to node.HANDLE, in order

VARIABLES
    \* --- a GraphRingBuffer with one column, its writer and one reader
    ring_size,      \* self.size
    ring_length,    \* self.length
    ring_tail,      \* self.tail (0-based, as in the code)
    ring_head,      \* self.head (0-based)
    ring_data,      \* the column's list
    ring_event,     \* the reader's Event is set
    read_all_pc,    \* "idle", or "sorted": read_all is between sort() and update()
    read_all_data,  \* what the last read_all returned (NoData before)
    ring_written,   \* every point written so far, in order
    ring_resizes,   \* number of set_size calls made
    ring_raised     \* the last write raised IndexError

VARIABLES
    \* --- a DataBuffer (or the head data of a GraphRingBuffer), a writer, a reader
    buf_class,      \* "DataBuffer" or "GraphRingBuffer"
    buf_data,       \* self.data / self.head_data: 0 at first, then the number of the write
    buf_event,      \* the reader's Event is set
    buf_write_pc,   \* "idle", or "stored": write has stored the data and not set the events yet
    buf_read_pc,    \* "idle", "woken" (the event was seen set), "cleared"
    buf_returned,   \* what the reader's last read returned (NotRead before the first)
    buf_written,    \* number of write calls made
    buf_unread,     \* writes completed since the reader's last read began
    buf_read_after, \* buf_unread when the last read began
    buf_overlap     \* a write was under way at some point of the last read

VARIABLES
    \* --- a DatabaseController
    sessions,       \* self.sessions: ID -> NoSession or the Database bound to it
    playback_ports, \* self.playback_ports: port -> [file, count]
    ctrl_call,      \* the last call: its name, ID, whether it raised, the ports it sent a shutdown to
    ctrl_failures   \* number of PlaybackDatabase.shutdown() calls that raised

VARIABLES
    \* --- LiveDatabase.save and the save directory
    save_dir,       \* names of the files of the save directory
    live_dump,      \* the live dump file exists in the live directory
    live_entries,   \* entries held in memory by the live backend
    wall_seconds,   \* the wall clock, in whole seconds
    save_call       \* the last save call: number, name used, raised, copied, overwrote, flushed

VARIABLES
    streaming,      \* Streamer.streaming: flag set when actively streaming
    streamer_time,  \* Streamer.time: the recorded start time (0 at construction)
    streamer_clock, \* time.time(), the wall clock the Streamer reads
    request_pc,     \* per request thread of HANDLE: where its method stands
    requests_handled, \* requests dispatched by HANDLE so far
    recorded        \* history: writes of Streamer.time since the flag was last raised

VARIABLES
    sock_kind,      \* per Host socket: the state it was in when cleanup began
    sock_index,     \* HostNode.sockets: ids of the SocketHandlers in the index
    sock_exit,      \* per socket: SocketHandler.exit
    sock_close,     \* per socket: SocketHandler.close
    sock_trigger,   \* per socket: where its _exit_trigger thread stands
    sock_cleaned,   \* per socket: its cleanup() has run (socket closed)
    cleanup_pc,     \* where HostNode.cleanup stands
    cleanup_list,   \* the sockets cleanup() took from the index
    cleanup_todo,   \* sockets the loop of Node.cleanup has still to shut down
    cleanup_sock,   \* the socket whose shutdown(block=True) is running
    pipe_todo,      \* pipes the loop of HostNode.cleanup has still to signal
    pipe_cur,       \* the pipe being signalled and terminated
    shutdown_sent,  \* Workers whose pipe was sent 'SHUTDOWN'
    process_alive,  \* per Worker: Process.is_alive()
    terminated      \* Workers whose process was sent Process.terminate()

VARIABLES
    package,        \* the SocketPackage receive_socket was given
    receive_pc,     \* where Node.receive_socket stands
    received,       \* SocketPackages received so far
    new_handler,    \* the SocketHandler unpack returned
    new_request,    \* the Request unpack returned (NoRequest for None)
    node_sockets,   \* the receiving Node's socket index
    node_running,   \* ids of the handlers receive_socket has run
    node_handled    \* requests receive_socket gave to HANDLE

VARIABLES
    worker_index,   \* WorkerNode.sockets of a starting Worker, in insertion order
    run_pc,         \* where the RUN thread (WorkerNode._run) stands
    run_todo,       \* handlers the loop of _run has still to run
    pipe_pc,        \* where receive_socket on the PIPE thread stands
    pipe_handler,   \* the handler receive_socket has unpacked
    pipe_received,  \* sockets received through the pipe so far
    run_calls       \* per handler: calls of SocketHandler.run()

xferVars == <<sent, wire, hostSockets, hExit, hpc, hostHandled, hostLate, xpc,
              pipe, wrpc, wpkg, wh, wreq, workerSockets, workerHandled, wlpc, wRunAt>>
nodeVars == <<hostExit, hostClose>>
readVars == <<entries, lockHeld, lockBy, bm, ncalls, rpc, rcall, rop, rcount,
              racq, rread, rresp, rret, series>>
writeVars == <<bmWrite, bmSeq, write_call, lastTime, produced, stored>>
clockVars == <<wall, playback_active, playback_speed, start_time, relative_stop_time,
               stopWall>>
poolVars == <<automatic_shutdown, pipes, toHost, ppc, wstate, handledShutdown, hostWhy>>

serveVars == <<nsockets, nexit, nthreads, nserved, nthrown>>
lifeVars == <<exitF, closeF, tpc, cpc, cleanups, shutdowns, nops, life_sockets, removes,
             redundant>>
workVars == <<wsockets, hexit, hclose, hrun, htrig, wexit, wclose, wtrig, wtodo, wcur, sentShutdown>>
codecVars == <<creq, cdata, cparsed, codec_pc>>
parseVars == <<peer_input, unsent, pull_buffer, peer_closed, sh_request, parse_pc, sh_exit, sh_close, dispatched>>
ringVars == <<ring_size, ring_length, ring_tail, ring_head, ring_data, ring_event, read_all_pc, read_all_data, ring_written, ring_resizes, ring_raised>>
dataVars == <<buf_class, buf_data, buf_event, buf_write_pc, buf_read_pc, buf_returned, buf_written, buf_unread, buf_read_after, buf_overlap>>
ctrlVars == <<sessions, playback_ports, ctrl_call, ctrl_failures>>
saveVars == <<save_dir, live_dump, live_entries, wall_seconds, save_call>>
streamerVars == <<streaming, streamer_time, streamer_clock, request_pc, requests_handled, recorded>>
cleanupVars == <<sock_kind, sock_index, sock_exit, sock_close, sock_trigger, sock_cleaned, cleanup_pc, cleanup_list, cleanup_todo, cleanup_sock, pipe_todo, pipe_cur, shutdown_sent, process_alive, terminated>>
pkgVars == <<package, receive_pc, received, new_handler, new_request, node_sockets, node_running, node_handled>>
startVars == <<worker_index, run_pc, run_todo, pipe_pc, pipe_handler, pipe_received, run_calls>>
\* what each part leaves alone
notXfer == <<readVars, writeVars, clockVars, poolVars, serveVars, lifeVars, workVars, codecVars, parseVars, ringVars, dataVars, ctrlVars, saveVars, streamerVars, cleanupVars, pkgVars, startVars>>
notRead == <<xferVars, nodeVars, writeVars, clockVars, poolVars, serveVars, lifeVars, workVars, codecVars, parseVars, ringVars, dataVars, ctrlVars, saveVars, streamerVars, cleanupVars, pkgVars, startVars>>
notWrite == <<xferVars, nodeVars, readVars, clockVars, poolVars, serveVars, lifeVars, workVars, codecVars, parseVars, ringVars, dataVars, ctrlVars, saveVars, streamerVars, cleanupVars, pkgVars, startVars>>
notClock == <<xferVars, nodeVars, readVars, writeVars, poolVars, serveVars, lifeVars, workVars, codecVars, parseVars, ringVars, dataVars, ctrlVars, saveVars, streamerVars, cleanupVars, pkgVars, startVars>>
notPool == <<xferVars, readVars, writeVars, clockVars, serveVars, lifeVars, workVars, codecVars, parseVars, ringVars, dataVars, ctrlVars, saveVars, streamerVars, cleanupVars, pkgVars, startVars>>
notServe == <<xferVars, readVars, writeVars, clockVars, poolVars, lifeVars, workVars, codecVars, parseVars, ringVars, dataVars, ctrlVars, saveVars, streamerVars, cleanupVars, pkgVars, startVars>>
notLife == <<xferVars, nodeVars, readVars, writeVars, clockVars, poolVars, serveVars, workVars, codecVars, parseVars, ringVars, dataVars, ctrlVars, saveVars, streamerVars, cleanupVars, pkgVars, startVars>>
notWork == <<xferVars, nodeVars, readVars, writeVars, clockVars, poolVars, serveVars, lifeVars, codecVars, parseVars, ringVars, dataVars, ctrlVars, saveVars, streamerVars, cleanupVars, pkgVars, startVars>>
notCodec == <<xferVars, nodeVars, readVars, writeVars, clockVars, poolVars, serveVars, lifeVars, workVars, parseVars, ringVars, dataVars, ctrlVars, saveVars, streamerVars, cleanupVars, pkgVars, startVars>>
notParse == <<xferVars, nodeVars, readVars, writeVars, clockVars, poolVars, serveVars, lifeVars, workVars, codecVars, ringVars, dataVars, ctrlVars, saveVars, streamerVars, cleanupVars, pkgVars, startVars>>
notRing == <<xferVars, nodeVars, readVars, writeVars, clockVars, poolVars, serveVars, lifeVars, workVars, codecVars, parseVars, dataVars, ctrlVars, saveVars, streamerVars, cleanupVars, pkgVars, startVars>>
notData == <<xferVars, nodeVars, readVars, writeVars, clockVars, poolVars, serveVars, lifeVars, workVars, codecVars, parseVars, ringVars, ctrlVars, saveVars, streamerVars, cleanupVars, pkgVars, startVars>>
notCtrl == <<xferVars, nodeVars, readVars, writeVars, clockVars, poolVars, serveVars, lifeVars, workVars, codecVars, parseVars, ringVars, dataVars, saveVars, streamerVars, cleanupVars, pkgVars, startVars>>
notSave == <<xferVars, nodeVars, readVars, writeVars, clockVars, poolVars, serveVars, lifeVars, workVars, codecVars, parseVars, ringVars, dataVars, ctrlVars, streamerVars, cleanupVars, pkgVars, startVars>>
notStreamer == <<xferVars, nodeVars, readVars, writeVars, clockVars, poolVars, serveVars, lifeVars, workVars, codecVars, parseVars, ringVars, dataVars, ctrlVars, saveVars, cleanupVars, pkgVars, startVars>>
notCleanup == <<xferVars, nodeVars, readVars, writeVars, clockVars, poolVars, serveVars, lifeVars, workVars, codecVars, parseVars, ringVars, dataVars, ctrlVars, saveVars, streamerVars, pkgVars, startVars>>
notPkg == <<xferVars, nodeVars, readVars, writeVars, clockVars, poolVars, serveVars, lifeVars, workVars, codecVars, parseVars, ringVars, dataVars, ctrlVars, saveVars, streamerVars, cleanupVars, startVars>>
notStart == <<xferVars, nodeVars, readVars, writeVars, clockVars, poolVars, serveVars, lifeVars, workVars, codecVars, parseVars, ringVars, dataVars, ctrlVars, saveVars, streamerVars, cleanupVars, pkgVars>>

\* ------------------------------------------------------- the transfer model
HandlerId == "H"            \* the uuid of the Host's handler (SocketHandler.__init__)
HostHandler == [type |-> "SocketHandler", id |-> HandlerId]
FreshId == "G"              \* a uuid generated on the Worker (generate_uuid)
Methods == {"SIGN_ON", "GET"}

\* The n-th request the peer sends. The first one is the request that makes
\* the Host route the connection to a Worker; later ones are data requests.
RequestOf(n, m) == [n |-> n, method |-> IF n = 1 THEN m ELSE "INGEST"]

\* Placeholders for "no request", "no package yet", "no handler yet"
NoRequest == [n |-> 0, method |-> None]
NoPackage == [id |-> None, attrs |-> {}, request |-> FALSE, fields |-> NoRequest]
NoHandler == [id |-> None, name |-> None, exit |-> FALSE]

\* Base.halt: sets only the exit flag (the socket stays open)
halt(exit) == TRUE

\* SocketHandler._run loop condition `while not self.exit`
run_loop_continues(exit) == ~exit

\* SocketPackage.__init__(sock, request): `if type(sock) == SocketHandler` the id
\* of the handler is kept, a raw socket has no id; `if request:` sets
\* self.request = True and keeps the fields. attrs are the attributes the
\* object has afterwards: without a request, self.request is never assigned
SocketPackage(sock, request) ==
    [id      |-> IF sock.type = "SocketHandler" THEN sock.id ELSE None,
     attrs   |-> {"socket", "id"}
                   \cup (IF request # NoRequest THEN {"request", "fields"} ELSE {}),
     request |-> request # NoRequest,
     fields  |-> request]

\* (mutant) a handler that always generates its own uuid
handler_id_generated(uuid) == FreshId

\* SocketHandler.__init__: `if not uuid: generate_uuid() else: uuid`
handler_id(uuid) == IF uuid = None THEN FreshId ELSE uuid

\* SocketPackage.unpack: the new handler and the rebuilt request; the test
\* `if self.request:` raises AttributeError when the attribute was never set
unpack(pkg) ==
    [raised  |-> "request" \notin pkg.attrs,
     handler |-> [id |-> handler_id(pkg.id), name |-> "SOCKET", exit |-> FALSE],
     req     |-> IF pkg.request THEN pkg.fields ELSE NoRequest]

\* Node.receive_socket names the handler after the packaged request's method
handler_name(req) == IF req.method = "SIGN_ON" THEN "DATA-SOURCE" ELSE "REQUESTER"

\* Node.HANDLE(request): the request is handed to _execute (on a new thread)
HANDLE(handled, request) == Append(handled, request)

XferInit ==
    /\ sent = 0
    /\ wire = <<>>
    /\ hostSockets = {HandlerId}
    /\ hExit = FALSE
    /\ hpc = "check"
    /\ hostHandled = <<>>
    /\ hostLate = {}
    /\ xpc = "none"
    /\ pipe = <<>>
    /\ wrpc = "receive"
    /\ wpkg = NoPackage
    /\ wh = NoHandler
    /\ wreq = NoRequest
    /\ workerSockets = {}
    /\ workerHandled = <<>>
    /\ wlpc = "none"
    /\ wRunAt = 0

NodeInit ==
    /\ hostExit = FALSE
    /\ hostClose = FALSE

\* The peer writes its next request to the connection.
PeerSend ==
    /\ sent < MaxReq
    /\ \E m \in Methods :
         /\ (sent + 1 > 1 => m = "GET")
         /\ wire' = Append(wire, RequestOf(sent + 1, m))
    /\ sent' = sent + 1
    /\ UNCHANGED <<hostSockets, hExit, hpc, hostHandled, hostLate, xpc, pipe, wrpc,
                   wpkg, wh, wreq, workerSockets, workerHandled, wlpc, wRunAt>>
    /\ UNCHANGED nodeVars
    /\ UNCHANGED notXfer

\* SocketHandler._run on the Host: `while not self.exit`
HostLoopCheck ==
    /\ hpc = "check"
    /\ hpc' = IF run_loop_continues(hExit) THEN "parse" ELSE "stopped"
    /\ UNCHANGED <<sent, wire, hostSockets, hExit, hostHandled, hostLate, xpc, pipe,
                   wrpc, wpkg, wh, wreq, workerSockets, workerHandled, wlpc, wRunAt>>
    /\ UNCHANGED nodeVars
    /\ UNCHANGED notXfer

\* SocketHandler._run on the Host: parse_request blocks until a whole request
\* has arrived, then node.HANDLE(request, threaded=True). The request that
\* routes the connection starts the thread that calls transfer_socket.
HostLoopParse ==
    /\ hpc = "parse"
    /\ wire # <<>>
    /\ LET r == Head(wire) IN
         /\ wire' = Tail(wire)
         /\ hostHandled' = HANDLE(hostHandled, r)
         /\ hostLate' = IF xpc \in {"send", "remove", "done"}
                        THEN hostLate \cup {r.n} ELSE hostLate
         /\ xpc' = IF r.n = 1 /\ xpc = "none" THEN "halt" ELSE xpc
    /\ hpc' = "check"
    /\ UNCHANGED <<sent, hostSockets, hExit, pipe, wrpc, wpkg, wh, wreq,
                   workerSockets, workerHandled, wlpc, wRunAt>>
    /\ UNCHANGED nodeVars
    /\ UNCHANGED notXfer

\* Node.transfer_socket, first statement: request.origin.halt()
TransferHalt ==
    /\ xpc = "halt"
    /\ hExit' = halt(hExit)
    /\ xpc' = "send"
    /\ UNCHANGED <<sent, wire, hostSockets, hpc, hostHandled, hostLate, pipe, wrpc,
                   wpkg, wh, wreq, workerSockets, workerHandled, wlpc, wRunAt>>
    /\ UNCHANGED nodeVars
    /\ UNCHANGED notXfer

\* Node.transfer_socket: package = SocketPackage(handler, request); pipe.send(package)
TransferSend ==
    /\ xpc = "send"
    /\ pipe' = Append(pipe, SocketPackage(HostHandler, hostHandled[1]))
    /\ xpc' = "remove"
    /\ UNCHANGED <<sent, wire, hostSockets, hExit, hpc, hostHandled, hostLate, wrpc,
                   wpkg, wh, wreq, workerSockets, workerHandled, wlpc, wRunAt>>
    /\ UNCHANGED nodeVars
    /\ UNCHANGED notXfer

\* Node.remove_socket(id) on the Host: unknown id -> log; handler not halted ->
\* throw (the Node shuts down); otherwise delete from the index.
remove_socket(sockets, id, exit) ==
    IF id \notin sockets THEN [sockets |-> sockets, throw |-> FALSE]
    ELSE IF ~exit THEN [sockets |-> sockets, throw |-> TRUE]
    ELSE [sockets |-> sockets \ {id}, throw |-> FALSE]

\* Node.transfer_socket, last statement: self.remove_socket(request.origin.id)
TransferRemove ==
    /\ xpc = "remove"
    /\ LET r == remove_socket(hostSockets, HandlerId, hExit) IN
         /\ hostSockets' = r.sockets
         /\ hostExit' = (hostExit \/ r.throw)
         /\ hostClose' = (hostClose \/ r.throw)
    /\ xpc' = "done"
    /\ UNCHANGED <<sent, wire, hExit, hpc, hostHandled, hostLate, pipe, wrpc, wpkg,
                   wh, wreq, workerSockets, workerHandled, wlpc, wRunAt>>
    /\ UNCHANGED notXfer

\* WorkerNode._run_pipe: message = self.pipe.receive(), a SocketPackage
WorkerReceive ==
    /\ wrpc = "receive"
    /\ pipe # <<>>
    /\ wpkg' = Head(pipe)
    /\ pipe' = Tail(pipe)
    /\ wrpc' = "unpack"
    /\ UNCHANGED <<sent, wire, hostSockets, hExit, hpc, hostHandled, hostLate, xpc,
                   wh, wreq, workerSockets, workerHandled, wlpc, wRunAt>>
    /\ UNCHANGED nodeVars
    /\ UNCHANGED notXfer

\* Node.receive_socket: handler, request = package.unpack(self)
ReceiveUnpack ==
    /\ wrpc = "unpack"
    /\ IF unpack(wpkg).raised
       THEN /\ wrpc' = "raised"
            /\ UNCHANGED <<wh, wreq>>
       ELSE /\ wh' = unpack(wpkg).handler
            /\ wreq' = unpack(wpkg).req
            /\ wrpc' = "handle"
    /\ UNCHANGED <<sent, wire, hostSockets, hExit, hpc, hostHandled, hostLate, xpc,
                   pipe, wpkg, workerSockets, workerHandled, wlpc, wRunAt>>
    /\ UNCHANGED nodeVars
    /\ UNCHANGED notXfer

\* Node.receive_socket: `if request:` name the handler and self.HANDLE(request)
ReceiveHandle ==
    /\ wrpc = "handle"
    /\ IF wreq # NoRequest
       THEN /\ wh' = [wh EXCEPT !.name = handler_name(wreq)]
            /\ workerHandled' = HANDLE(workerHandled, wreq)
       ELSE UNCHANGED <<wh, workerHandled>>
    /\ wrpc' = "add"
    /\ UNCHANGED <<sent, wire, hostSockets, hExit, hpc, hostHandled, hostLate, xpc,
                   pipe, wpkg, wreq, workerSockets, wlpc, wRunAt>>
    /\ UNCHANGED nodeVars
    /\ UNCHANGED notXfer

\* Node.receive_socket: self.add_socket(handler)
ReceiveAdd ==
    /\ wrpc = "add"
    /\ workerSockets' = workerSockets \cup {wh.id}
    /\ wrpc' = "run"
    /\ UNCHANGED <<sent, wire, hostSockets, hExit, hpc, hostHandled, hostLate, xpc,
                   pipe, wpkg, wh, wreq, workerHandled, wlpc, wRunAt>>
    /\ UNCHANGED nodeVars
    /\ UNCHANGED notXfer

\* Node.receive_socket: handler.run() starts the read-loop thread
ReceiveRun ==
    /\ wrpc = "run"
    /\ wlpc' = "check"
    /\ wRunAt' = Len(workerHandled)
    /\ wrpc' = "receive"
    /\ UNCHANGED <<sent, wire, hostSockets, hExit, hpc, hostHandled, hostLate, xpc,
                   pipe, wpkg, wh, wreq, workerSockets, workerHandled>>
    /\ UNCHANGED nodeVars
    /\ UNCHANGED notXfer

\* SocketHandler._run on the Worker: `while not self.exit`
WorkerLoopCheck ==
    /\ wlpc = "check"
    /\ wlpc' = IF run_loop_continues(wh.exit) THEN "parse" ELSE "stopped"
    /\ UNCHANGED <<sent, wire, hostSockets, hExit, hpc, hostHandled, hostLate, xpc,
                   pipe, wrpc, wpkg, wh, wreq, workerSockets, workerHandled, wRunAt>>
    /\ UNCHANGED nodeVars
    /\ UNCHANGED notXfer

\* SocketHandler._run on the Worker: parse_request, then node.HANDLE(request)
WorkerLoopParse ==
    /\ wlpc = "parse"
    /\ wire # <<>>
    /\ wire' = Tail(wire)
    /\ workerHandled' = HANDLE(workerHandled, Head(wire))
    /\ wlpc' = "check"
    /\ UNCHANGED <<sent, hostSockets, hExit, hpc, hostHandled, hostLate, xpc,
                   pipe, wrpc, wpkg, wh, wreq, workerSockets, wRunAt>>
    /\ UNCHANGED nodeVars
    /\ UNCHANGED notXfer

XferNext ==
    \/ PeerSend
    \/ HostLoopCheck
    \/ HostLoopParse
    \/ TransferHalt
    \/ TransferSend
    \/ TransferRemove
    \/ WorkerReceive
    \/ ReceiveUnpack
    \/ ReceiveHandle
    \/ ReceiveAdd
    \/ ReceiveRun
    \/ WorkerLoopCheck
    \/ WorkerLoopParse

\* ------------------------------------------ the read paths and the bookmark
Readers == 1..NumReaders
ReadOps == {"read_data", "read_snapshot"}
Counts == 0..MaxCount       \* read_data's count argument: 0 for None, or a number

RECURSIVE Range(_, _)
\* the ids lo..hi in increasing order
Range(lo, hi) == IF lo > hi THEN <<>> ELSE <<lo>> \o Range(lo + 1, hi)

RECURSIVE Reverse(_)
Reverse(q) == IF q = <<>> THEN <<>> ELSE Append(Reverse(Tail(q)), Head(q))

Max(a, b) == IF a >= b THEN a ELSE b

\* multiprocessing.Lock.acquire(block=False): True iff the lock was free
acquire(held) == ~held

\* Bookmark.lock(block): `return self._lock.acquire(block=block)`
lock(held) == acquire(held)

\* read_data / read_snapshot: `if bookmark.lock(block=False): return`
returns_at_lock_check(held) == lock(held)

\* redis XREVRANGE stream count=c: the newest c entries, newest first
xrevrange(n, c) == Reverse(Range(Max(1, n - c + 1), n))

\* redis XREAD stream last_id: the entries after last_id, oldest first
xread(n, last_id) == Range(last_id + 1, n)

\* The id the bookmark keeps: read_data takes response[-1][0],
\* read_snapshot takes response[0][0]
bookmark_id(op, response) ==
    IF op = "read_data" THEN response[Len(response)] ELSE response[1]

\* lines 427-433 / 548-554: first-read info if not set yet, then last-read info
update_bookmark(b, op, response) ==
    [first_id |-> IF b.first_id = 0 THEN bookmark_id(op, response) ELSE b.first_id,
     last_id  |-> bookmark_id(op, response)]

ReadInit ==
    /\ entries = 0
    /\ lockHeld = FALSE
    /\ lockBy = 0
    /\ bm = [first_id |-> 0, last_id |-> 0]
    /\ ncalls = 0
    /\ rpc = [t \in Readers |-> "idle"]
    /\ rcall = [t \in Readers |-> 0]
    /\ rop = [t \in Readers |-> "read_data"]
    /\ rcount = [t \in Readers |-> 0]
    /\ racq = [t \in Readers |-> FALSE]
    /\ rread = [t \in Readers |-> FALSE]
    /\ rresp = [t \in Readers |-> <<>>]
    /\ rret = [t \in Readers |-> "no call"]
    /\ series = [returned |-> [e \in 1..MaxEntries |-> 0], clean |-> TRUE]

\* A producer adds an entry to the stream (Database.write_data, XADD).
StreamWrite ==
    /\ entries < MaxEntries
    /\ entries' = entries + 1
    /\ UNCHANGED <<lockHeld, lockBy, bm, ncalls, rpc, rcall, rop, rcount, racq,
                   rread, rresp, rret, series>>
    /\ UNCHANGED notRead

\* A thread calls read_data(stream, count) or read_snapshot(stream).
ReadCall(t) ==
    /\ rpc[t] = "idle"
    /\ ncalls < MaxCalls
    /\ ncalls' = ncalls + 1
    /\ rcall' = [rcall EXCEPT ![t] = ncalls + 1]
    /\ \E op \in ReadOps, c \in Counts :
         /\ (op = "read_snapshot" => c = 0)
         /\ rop' = [rop EXCEPT ![t] = op]
         /\ rcount' = [rcount EXCEPT ![t] = c]
         /\ series' = [series EXCEPT !.clean = @ /\ op = "read_data" /\ c = 0]
    /\ racq' = [racq EXCEPT ![t] = FALSE]
    /\ rread' = [rread EXCEPT ![t] = FALSE]
    /\ rret' = [rret EXCEPT ![t] = "running"]
    /\ rpc' = [rpc EXCEPT ![t] = "lock"]
    /\ UNCHANGED <<entries, lockHeld, lockBy, bm, rresp>>
    /\ UNCHANGED notRead

\* `bookmark = self.bookmarks.get(stream); if bookmark.lock(block=False): return`
ReadLock(t) ==
    /\ rpc[t] = "lock"
    /\ racq' = [racq EXCEPT ![t] = acquire(lockHeld)]
    /\ lockBy' = IF acquire(lockHeld) THEN rcall[t] ELSE lockBy
    /\ lockHeld' = TRUE
    /\ IF returns_at_lock_check(lockHeld)
       THEN /\ rpc' = [rpc EXCEPT ![t] = "idle"]
            /\ rret' = [rret EXCEPT ![t] = "None"]
       ELSE /\ rpc' = [rpc EXCEPT ![t] = "read"]
            /\ UNCHANGED rret
    /\ UNCHANGED <<entries, bm, ncalls, rcall, rop, rcount, rread, rresp, series>>
    /\ UNCHANGED notRead

\* Bookmark.release(): releasing a lock that is not held raises (ValueError,
\* turned into DatabaseError by catch_database_errors)
release_raises(held) == ~held

\* The backend call of a read: XREVRANGE with count, XREAD after the last id,
\* or the first read (XREAD $ with block=1000: only an entry that arrives during
\* the wait is returned). `if not response: bookmark.release(); return None`.
ReadBackend(t) ==
    /\ rpc[t] = "read"
    /\ rread' = [rread EXCEPT ![t] = TRUE]
    /\ \E arrives \in BOOLEAN :
         LET first == rop[t] = "read_data" /\ rcount[t] = 0 /\ bm.last_id = 0
             n == IF first /\ arrives THEN entries + 1 ELSE entries
             response ==
                 IF rop[t] = "read_snapshot" THEN xrevrange(entries, 1)
                 ELSE IF rcount[t] # 0 THEN xrevrange(entries, rcount[t])
                 ELSE IF bm.last_id # 0 THEN xread(entries, bm.last_id)
                 ELSE IF arrives THEN <<entries + 1>> ELSE <<>>
         IN /\ (arrives => first /\ entries < MaxEntries)
            /\ entries' = n
            /\ IF response = <<>>
               THEN /\ lockHeld' = FALSE
                    /\ rret' = [rret EXCEPT ![t] =
                                  IF release_raises(lockHeld) THEN "raised" ELSE "None"]
                    /\ rpc' = [rpc EXCEPT ![t] = "idle"]
                    /\ UNCHANGED rresp
               ELSE /\ rresp' = [rresp EXCEPT ![t] = response]
                    /\ rpc' = [rpc EXCEPT ![t] = "update"]
                    /\ UNCHANGED <<lockHeld, rret>>
    /\ UNCHANGED <<lockBy, bm, ncalls, rcall, rop, rcount, racq, series>>
    /\ UNCHANGED notRead

\* The backend call fails (timeout, connection or response error): the
\* decorator catch_database_errors re-raises it as a DatabaseError.
ReadBackendError(t) ==
    /\ rpc[t] = "read"
    /\ rread' = [rread EXCEPT ![t] = TRUE]
    /\ rret' = [rret EXCEPT ![t] = "raised"]
    /\ rpc' = [rpc EXCEPT ![t] = "idle"]
    /\ UNCHANGED <<entries, lockHeld, lockBy, bm, ncalls, rcall, rop, rcount, racq,
                   rresp, series>>
    /\ UNCHANGED notRead

\* first-read and last-read info of the bookmark
ReadUpdate(t) ==
    /\ rpc[t] = "update"
    /\ bm' = update_bookmark(bm, rop[t], rresp[t])
    /\ rpc' = [rpc EXCEPT ![t] = "convert"]
    /\ UNCHANGED <<entries, lockHeld, lockBy, ncalls, rcall, rop, rcount, racq,
                   rread, rresp, rret, series>>
    /\ UNCHANGED notRead

\* The conversion of the values (float(...), json.dumps): it either raises,
\* which leaves the function through the decorator, or the result is built.
ReadConvert(t) ==
    /\ rpc[t] = "convert"
    /\ \E fails \in BOOLEAN :
         IF fails
         THEN /\ rret' = [rret EXCEPT ![t] = "raised"]
              /\ rpc' = [rpc EXCEPT ![t] = "idle"]
              /\ rresp' = [rresp EXCEPT ![t] = <<>>]
              /\ series' = [series EXCEPT !.clean = FALSE]
         ELSE /\ rpc' = [rpc EXCEPT ![t] = "release"]
              /\ UNCHANGED <<rret, rresp, series>>
    /\ UNCHANGED <<entries, lockHeld, lockBy, bm, ncalls, rcall, rop, rcount, racq,
                   rread>>
    /\ UNCHANGED notRead

\* the batches returned so far, with one more that holds the ids of response
\* (counted up to 2: once, or more than once)
returned_once_more(returned, response) ==
    [e \in DOMAIN returned |->
        IF \E i \in 1..Len(response) : response[i] = e
        THEN (IF returned[e] < 2 THEN returned[e] + 1 ELSE 2)
        ELSE returned[e]]

\* `bookmark.release(); return result`
ReadRelease(t) ==
    /\ rpc[t] = "release"
    /\ lockHeld' = FALSE
    /\ rret' = [rret EXCEPT ![t] = IF release_raises(lockHeld) THEN "raised" ELSE "data"]
    /\ rpc' = [rpc EXCEPT ![t] = "idle"]
    /\ rresp' = [rresp EXCEPT ![t] = <<>>]
    /\ series' = IF release_raises(lockHeld) THEN series
                 ELSE [series EXCEPT !.returned = returned_once_more(@, rresp[t])]
    /\ UNCHANGED <<entries, lockBy, bm, ncalls, rcall, rop, rcount, racq, rread>>
    /\ UNCHANGED notRead

ReadNext ==
    \/ StreamWrite
    \/ \E t \in Readers : ReadCall(t)
    \/ \E t \in Readers : ReadLock(t)
    \/ \E t \in Readers : ReadBackend(t)
    \/ \E t \in Readers : ReadBackendError(t)
    \/ \E t \in Readers : ReadUpdate(t)
    \/ \E t \in Readers : ReadConvert(t)
    \/ \E t \in Readers : ReadRelease(t)

\* --------------------------------------------------- the write-id discipline
\* None for the integer-valued fields of the Bookmark
NoneInt == -1

\* Database.time_to_redis: str(unix_time).split('.')[0], the integer millisecond
time_to_redis(t) == t \div SubMs

\* Python truth value of bookmark.write: None and 0 are both false
truthy(x) == x # NoneInt /\ x # 0

\* Database.validate_redis_time(redis_id, stream): the id to write with, and the
\* bookmark's write and seq afterwards. An id without a sequence number is the
\* bare millisecond string (seq = NoneInt).
validate_redis_time(redis_id, write, seq) ==
    IF ~truthy(write)
    THEN [id |-> [ms |-> redis_id, seq |-> NoneInt], write |-> write, seq |-> seq]
    ELSE IF redis_id = write
    THEN [id |-> [ms |-> redis_id, seq |-> seq + 1], write |-> redis_id, seq |-> seq + 1]
    ELSE [id |-> [ms |-> redis_id, seq |-> NoneInt], write |-> redis_id, seq |-> 0]

\* The sequence number redis gives an id: "ms" alone means "ms-0"
SeqOf(id) == IF id.seq = NoneInt THEN 0 ELSE id.seq

\* the order of redis stream ids
IdLess(a, b) == a.ms < b.ms \/ (a.ms = b.ms /\ SeqOf(a) < SeqOf(b))

\* XADD with an explicit id: accepted only above the stream's top id (0-0 when
\* the stream is empty), otherwise the backend answers with an error
xadd(ids, id) ==
    LET top == IF ids = <<>> THEN [ms |-> 0, seq |-> 0] ELSE ids[Len(ids)]
    IN IF IdLess(top, id) THEN Append(ids, id) ELSE ids

\* the columns of a write_data input: each is a scalar (size None) or a sequence
Columns == {"time", "v"}
Sizes == {NoneInt} \cup 0..MaxRows
DataShapes == UNION {[cols -> Sizes] : cols \in SUBSET Columns}
NoCall == [data |-> <<>>, raised |-> FALSE]

\* Database.valid_list on a column of this size
valid_list(size) == size # NoneInt

\* Database.write_data, the checks made before anything is written: no 'time'
\* key, or more than one size among the columns
shape_error(data) ==
    \/ "time" \notin DOMAIN data
    \/ Cardinality({data[c] : c \in DOMAIN data}) # 1

\* the rows of a well-formed input
rows_of(data) == IF valid_list(data["time"]) THEN data["time"] ELSE 1

\* Database.write_data, the loop over the rows: validate_redis_time and XADD
\* for each time value of ts, from bookmark (write, seq) and the stream ids
RECURSIVE write_rows(_, _, _, _, _)
write_rows(ts, write, seq, made, ids) ==
    IF ts = <<>> THEN [write |-> write, seq |-> seq, made |-> made, ids |-> ids]
    ELSE LET v == validate_redis_time(time_to_redis(Head(ts)), write, seq)
         IN write_rows(Tail(ts), v.write, v.seq, Append(made, v.id), xadd(ids, v.id))

WriteInit ==
    /\ bmWrite = NoneInt
    /\ bmSeq = NoneInt
    /\ write_call = NoCall
    /\ lastTime = SubMs
    /\ produced = <<>>
    /\ stored = <<>>

\* Database.write_data with scalar columns: one validate_redis_time, one XADD
WriteData ==
    /\ Len(produced) < MaxWrites
    /\ \E t \in lastTime..MaxTime :
         LET v == validate_redis_time(time_to_redis(t), bmWrite, bmSeq) IN
           /\ lastTime' = t
           /\ bmWrite' = v.write
           /\ bmSeq' = v.seq
           /\ produced' = Append(produced, v.id)
           /\ stored' = xadd(stored, v.id)
    /\ UNCHANGED write_call
    /\ UNCHANGED notWrite

\* Database.write_data with sequence columns (two rows): validate_redis_time and
\* a pipelined XADD per row, then pipe.execute()
WriteBatch ==
    /\ Len(produced) + 2 <= MaxWrites
    /\ \E t1 \in lastTime..MaxTime : \E t2 \in t1..MaxTime :
         LET v1 == validate_redis_time(time_to_redis(t1), bmWrite, bmSeq)
             v2 == validate_redis_time(time_to_redis(t2), v1.write, v1.seq)
         IN /\ lastTime' = t2
            /\ bmWrite' = v2.write
            /\ bmSeq' = v2.seq
            /\ produced' = produced \o <<v1.id, v2.id>>
            /\ stored' = xadd(xadd(stored, v1.id), v2.id)
    /\ UNCHANGED write_call
    /\ UNCHANGED notWrite

\* Database.write_snapshot: one validate_redis_time, one XADD of the joined row
WriteSnapshot ==
    /\ Len(produced) < MaxWrites
    /\ \E t \in lastTime..MaxTime :
         LET v == validate_redis_time(time_to_redis(t), bmWrite, bmSeq) IN
           /\ lastTime' = t
           /\ bmWrite' = v.write
           /\ bmSeq' = v.seq
           /\ produced' = Append(produced, v.id)
           /\ stored' = xadd(stored, v.id)
    /\ UNCHANGED write_call
    /\ UNCHANGED notWrite

\* Database.write_data(stream, data) for any columns: DatabaseError before
\* anything is written when the shape check fails; otherwise one XADD per row,
\* and a DatabaseError (from the backend's ResponseError) when one is refused
WriteDataCall(data) ==
    IF shape_error(data)
    THEN /\ write_call' = [data |-> data, raised |-> TRUE]
         /\ UNCHANGED <<bmWrite, bmSeq, lastTime, produced, stored>>
         /\ UNCHANGED notWrite
    ELSE /\ Len(produced) + rows_of(data) <= MaxWrites
         /\ \E ts \in [1..rows_of(data) -> lastTime..MaxTime] :
              /\ \A i \in 1..(rows_of(data) - 1) : ts[i] <= ts[i + 1]
              /\ LET w == write_rows(ts, bmWrite, bmSeq, <<>>, stored)
                 IN /\ bmWrite' = w.write
                    /\ bmSeq' = w.seq
                    /\ produced' = produced \o w.made
                    /\ stored' = w.ids
                    /\ lastTime' = IF ts = <<>> THEN lastTime ELSE ts[Len(ts)]
                    /\ write_call' = [data |-> data,
                                      raised |-> Len(w.ids) # Len(stored) + rows_of(data)]
         /\ UNCHANGED notWrite

WriteNext ==
    \/ \E data \in DataShapes : WriteDataCall(data)
    \/ WriteData
    \/ WriteBatch
    \/ WriteSnapshot

\* --------------------------------------------------------- the playback clock
DefaultSpeed == 5
Speeds == {1, 2, DefaultSpeed}

\* PlaybackDatabase.is_streaming
is_streaming(active) == active

\* PlaybackDatabase.time(): the playback time, from the wall clock `now`
time(active, now, start, stop, speed) ==
    IF is_streaming(active) THEN stop + (now - start) * speed ELSE stop

PlaybackTime ==
    time(playback_active, wall, start_time, relative_stop_time, playback_speed)

ClockInit ==
    /\ wall = 0
    /\ playback_active = FALSE
    /\ playback_speed = DefaultSpeed
    /\ start_time = wall
    /\ relative_stop_time = wall
    /\ stopWall = NoneInt

\* the wall clock advances by a millisecond
Tick ==
    /\ wall < MaxWall
    /\ wall' = wall + 1
    /\ UNCHANGED <<playback_active, playback_speed, start_time, relative_stop_time,
                   stopWall>>
    /\ UNCHANGED notClock

\* the owner assigns playback_speed (in either direction, active or paused)
SetSpeed ==
    /\ \E s \in Speeds \ {playback_speed} : playback_speed' = s
    /\ UNCHANGED <<wall, playback_active, start_time, relative_stop_time, stopWall>>
    /\ UNCHANGED notClock

\* (mutant) start() without the `already streaming` test
PlaybackStartUnguarded ==
    /\ start_time' = wall
    /\ playback_active' = TRUE
    /\ UNCHANGED <<wall, playback_speed, relative_stop_time, stopWall>>
    /\ UNCHANGED notClock

\* PlaybackDatabase.start()
PlaybackStart ==
    /\ IF is_streaming(playback_active)
       THEN UNCHANGED <<start_time, playback_active>>
       ELSE /\ start_time' = wall
            /\ playback_active' = TRUE
    /\ UNCHANGED <<wall, playback_speed, relative_stop_time, stopWall>>
    /\ UNCHANGED notClock

\* PlaybackDatabase.stop()
PlaybackStop ==
    /\ relative_stop_time' = PlaybackTime
    /\ playback_active' = FALSE
    /\ stopWall' = wall
    /\ UNCHANGED <<wall, playback_speed, start_time>>
    /\ UNCHANGED notClock

ClockNext ==
    \/ Tick
    \/ SetSpeed
    \/ PlaybackStart
    \/ PlaybackStop

\* ------------------------------------ the Host's pipes and automatic shutdown
Workers == 1..NumWorkers

\* Base.shutdown(): nothing when both flags are set, else halt() and close
shutdown(exit, close) ==
    IF close /\ exit THEN [exit |-> exit, close |-> close]
    ELSE [exit |-> TRUE, close |-> TRUE]

\* (mutant) remove_worker that does not look at the pipe index
shuts_down_without_test(auto, index) == auto

\* HostNode.remove_worker: `if self.automatic_shutdown: if not self.pipes:`
shuts_down(auto, index) == auto /\ index = {}

PoolInitWith(auto) ==
    /\ automatic_shutdown = auto
    /\ pipes = {}
    /\ toHost = [w \in Workers |-> <<>>]
    /\ ppc = [w \in Workers |-> "none"]
    /\ wstate = [w \in Workers |-> "new"]
    /\ handledShutdown = {}
    /\ hostWhy = "none"

\* HostNode(name, auto): auto is the constructor's argument
PoolInit == \E auto \in BOOLEAN : PoolInitWith(auto)
PoolParked == PoolInitWith(TRUE)

\* HostNode.run_worker(worker): index the pipe, start the process and the reader
RunWorker(w) ==
    /\ wstate[w] = "new"
    /\ pipes' = pipes \cup {w}
    /\ wstate' = [wstate EXCEPT ![w] = "running"]
    /\ ppc' = [ppc EXCEPT ![w] = "loop"]
    /\ UNCHANGED <<automatic_shutdown, toHost, handledShutdown, hostWhy>>
    /\ UNCHANGED nodeVars
    /\ UNCHANGED notPool

\* WorkerNode.cleanup: self.pipe.send('SHUTDOWN')
WorkerSendsShutdown(w) ==
    /\ wstate[w] = "running"
    /\ toHost' = [toHost EXCEPT ![w] = Append(@, "SHUTDOWN")]
    /\ wstate' = [wstate EXCEPT ![w] = "closed"]
    /\ UNCHANGED <<automatic_shutdown, pipes, ppc, handledShutdown, hostWhy>>
    /\ UNCHANGED nodeVars
    /\ UNCHANGED notPool

\* The Worker's end of the pipe closes without a message: PipeHandler.receive
\* catches EOFError and returns None
WorkerPipeCloses(w) ==
    /\ wstate[w] = "running"
    /\ toHost' = [toHost EXCEPT ![w] = Append(@, None)]
    /\ wstate' = [wstate EXCEPT ![w] = "closed"]
    /\ UNCHANGED <<automatic_shutdown, pipes, ppc, handledShutdown, hostWhy>>
    /\ UNCHANGED nodeVars
    /\ UNCHANGED notPool

\* HostNode._run_pipe: `while not self.exit`
PipeLoop(w) ==
    /\ ppc[w] = "loop"
    /\ ppc' = [ppc EXCEPT ![w] = IF hostExit THEN "returned" ELSE "receive"]
    /\ UNCHANGED <<automatic_shutdown, pipes, toHost, wstate, handledShutdown, hostWhy>>
    /\ UNCHANGED nodeVars
    /\ UNCHANGED notPool

\* HostNode._run_pipe: message = pipe.receive(); 'SHUTDOWN' goes on to
\* remove_worker, None (pipe closed) returns (the thread ends at "closed")
PipeReceive(w) ==
    /\ ppc[w] = "receive"
    /\ toHost[w] # <<>>
    /\ toHost' = [toHost EXCEPT ![w] = Tail(@)]
    /\ ppc' = [ppc EXCEPT ![w] =
                 IF Head(toHost[w]) = "SHUTDOWN" THEN "remove" ELSE "closed"]
    /\ UNCHANGED <<automatic_shutdown, pipes, wstate, handledShutdown, hostWhy>>
    /\ UNCHANGED nodeVars
    /\ UNCHANGED notPool

\* HostNode.remove_worker: `pipe = self.pipes.get(pipe_id)`; an id that is not
\* in the index ends the thread (the debug line reads pipe.name of None);
\* otherwise `del self.pipes[pipe_id]`
RemoveWorker(w) ==
    /\ ppc[w] = "remove"
    /\ IF w \notin pipes
       THEN /\ ppc' = [ppc EXCEPT ![w] = "crashed"]
            /\ UNCHANGED pipes
       ELSE /\ pipes' = pipes \ {w}
            /\ ppc' = [ppc EXCEPT ![w] = "auto"]
    /\ UNCHANGED <<automatic_shutdown, toHost, wstate, handledShutdown, hostWhy>>
    /\ UNCHANGED nodeVars
    /\ UNCHANGED notPool

\* HostNode.remove_worker: the automatic shutdown test and self.shutdown();
\* then _run_pipe returns
AutoShutdown(w) ==
    /\ ppc[w] = "auto"
    /\ IF shuts_down(automatic_shutdown, pipes)
       THEN /\ hostExit' = shutdown(hostExit, hostClose).exit
            /\ hostClose' = shutdown(hostExit, hostClose).close
            /\ hostWhy' = IF hostExit /\ hostClose THEN hostWhy ELSE "auto"
       ELSE UNCHANGED <<hostExit, hostClose, hostWhy>>
    /\ ppc' = [ppc EXCEPT ![w] = "returned"]
    /\ handledShutdown' = handledShutdown \cup {w}
    /\ UNCHANGED <<automatic_shutdown, pipes, toHost, wstate>>
    /\ UNCHANGED notPool

\* Base.throw on the Host (an unsupported request method, an error in a
\* command): self.shutdown()
HostThrow ==
    /\ ~(hostExit /\ hostClose)
    /\ hostExit' = shutdown(hostExit, hostClose).exit
    /\ hostClose' = shutdown(hostExit, hostClose).close
    /\ hostWhy' = "throw"
    /\ UNCHANGED <<automatic_shutdown, pipes, toHost, ppc, wstate, handledShutdown>>
    /\ UNCHANGED notPool

PoolNext ==
    \/ \E w \in Workers : RunWorker(w)
    \/ \E w \in Workers : WorkerSendsShutdown(w)
    \/ \E w \in Workers : WorkerPipeCloses(w)
    \/ \E w \in Workers : PipeLoop(w)
    \/ \E w \in Workers : PipeReceive(w)
    \/ \E w \in Workers : RemoveWorker(w)
    \/ \E w \in Workers : AutoShutdown(w)
    \/ HostThrow

\* ------------------------------------------- a Node dispatching its requests
SockIds == {"s1", "s2"}

\* the request methods a peer may send: one the Node defines and that returns,
\* one the Node defines and that raises, one the Node does not define
ReqKinds == {"returns", "raises", "undefined"}

\* Node._execute: hasattr(self, request.method)
has_method(k) == k # "undefined"

\* Node._execute: method_func(request) raises an Exception
method_raises(k) == k = "raises"

\* Node._execute: does the request end in self.throw(...)
execute_throws(k) == ~has_method(k) \/ method_raises(k)

ServeInit ==
    /\ nsockets = {}
    /\ nexit = [i \in SockIds |-> FALSE]
    /\ nthreads = <<>>
    /\ nserved = 0
    /\ nthrown = 0

\* Node.add_socket(handler) with a new handler
NodeAddSocket(i) ==
    /\ i \notin nsockets
    /\ nsockets' = nsockets \cup {i}
    /\ nexit' = [nexit EXCEPT ![i] = FALSE]
    /\ UNCHANGED <<nthreads, nserved, nthrown>>
    /\ UNCHANGED nodeVars
    /\ UNCHANGED notServe

\* SocketHandler.halt() / shutdown(): the handler's exit flag is set
SocketHalt(i) ==
    /\ i \in nsockets
    /\ ~nexit[i]
    /\ nexit' = [nexit EXCEPT ![i] = halt(nexit[i])]
    /\ UNCHANGED <<nsockets, nthreads, nserved, nthrown>>
    /\ UNCHANGED nodeVars
    /\ UNCHANGED notServe

\* SocketHandler._run of a running handler: node.HANDLE(request, threaded=True)
\* starts a thread for _execute
NodeHANDLE(i, k) ==
    /\ i \in nsockets
    /\ ~nexit[i]
    /\ Len(nthreads) < MaxPending
    /\ nserved + nthrown + Len(nthreads) < MaxServed
    /\ nthreads' = Append(nthreads, k)
    /\ UNCHANGED <<nsockets, nexit, nserved, nthrown>>
    /\ UNCHANGED nodeVars
    /\ UNCHANGED notServe

\* Node._execute(request) on its thread
NodeExecute(j) ==
    /\ j \in DOMAIN nthreads
    /\ nthreads' = [n \in 1..(Len(nthreads) - 1) |->
                       IF n < j THEN nthreads[n] ELSE nthreads[n + 1]]
    /\ IF execute_throws(nthreads[j])
       THEN /\ hostExit' = shutdown(hostExit, hostClose).exit
            /\ hostClose' = shutdown(hostExit, hostClose).close
            /\ nthrown' = nthrown + 1
            /\ UNCHANGED nserved
       ELSE /\ nserved' = nserved + 1
            /\ UNCHANGED <<hostExit, hostClose, nthrown>>
    /\ UNCHANGED <<nsockets, nexit>>
    /\ UNCHANGED notServe

\* Node.remove_socket(socket_id)
NodeRemoveSocket(i) ==
    /\ LET r == remove_socket(nsockets, i, nexit[i]) IN
         /\ r.throw => nserved + nthrown + Len(nthreads) < MaxServed
         /\ nsockets' = r.sockets
         /\ IF r.throw
            THEN /\ hostExit' = shutdown(hostExit, hostClose).exit
                 /\ hostClose' = shutdown(hostExit, hostClose).close
                 /\ nthrown' = nthrown + 1
            ELSE UNCHANGED <<hostExit, hostClose, nthrown>>
    /\ UNCHANGED <<nexit, nthreads, nserved>>
    /\ UNCHANGED notServe

ServeNext ==
    \/ \E i \in SockIds : NodeAddSocket(i)
    \/ \E i \in SockIds : SocketHalt(i)
    \/ \E i \in SockIds : \E k \in ReqKinds : NodeHANDLE(i, k)
    \/ \E j \in 1..MaxPending : NodeExecute(j)
    \/ \E i \in SockIds : NodeRemoveSocket(i)

\* ------------------------------------------------- exit trigger and shutdown
\* the objects followed: a SocketHandler and a Node (Host or Worker)
Objs == {"SocketHandler", "Node"}

LifeInit ==
    /\ exitF = [o \in Objs |-> FALSE]
    /\ closeF = [o \in Objs |-> FALSE]
    /\ tpc = [o \in Objs |-> "none"]
    /\ cpc = [o \in Objs |-> "idle"]
    /\ cleanups = [o \in Objs |-> 0]
    /\ shutdowns = [o \in Objs |-> 0]
    /\ nops = [o \in Objs |-> 0]
    /\ life_sockets = {"SocketHandler"}
    /\ removes = 0
    /\ redundant = 0

\* Base.shutdown, first statement: `if self.close and self.exit: return`
already_shut_down(close, exit) == close /\ exit

\* a notify_all() that also starts a trigger thread that has ended
notify_all_restarts(t) == IF t \in {"waiting", "done"} THEN "woken" ELSE t

\* Condition.notify_all() on exit_condition: wakes the trigger thread only if
\* it is inside wait()
notify_all(t) == IF t = "waiting" THEN "woken" ELSE t

\* Base._exit_trigger: `with self.exit_condition: self.exit_condition.wait()`
enters_wait(exit) == "waiting"

\* SocketHandler.run / WorkerNode.run / the Host's run: run_exit_trigger()
\* starts _exit_trigger (on a new thread, or on the calling thread)
RunExitTrigger(o) ==
    /\ tpc[o] = "none"
    /\ tpc' = [tpc EXCEPT ![o] = "started"]
    /\ UNCHANGED <<exitF, closeF, cpc, cleanups, shutdowns, nops>>
    /\ UNCHANGED <<life_sockets, removes, redundant>>
    /\ UNCHANGED notLife

\* Base._exit_trigger reaches exit_condition.wait()
TriggerWait(o) ==
    /\ tpc[o] = "started"
    /\ tpc' = [tpc EXCEPT ![o] = enters_wait(exitF[o])]
    /\ UNCHANGED <<exitF, closeF, cpc, cleanups, shutdowns, nops>>
    /\ UNCHANGED <<life_sockets, removes, redundant>>
    /\ UNCHANGED notLife

\* Base.halt() called on a running object: `self.exit = True`
CallHalt(o) ==
    /\ tpc[o] # "none"
    /\ cpc[o] = "idle"
    /\ nops[o] < MaxOps
    /\ nops' = [nops EXCEPT ![o] = @ + 1]
    /\ exitF' = [exitF EXCEPT ![o] = halt(exitF[o])]
    /\ cpc' = [cpc EXCEPT ![o] = "halt_notify"]
    /\ UNCHANGED <<closeF, tpc, cleanups, shutdowns>>
    /\ UNCHANGED <<life_sockets, removes, redundant>>
    /\ UNCHANGED notLife

\* Base.shutdown() called on a running object: the `already called` test, then
\* halt()'s `self.exit = True`
CallShutdown(o) ==
    /\ tpc[o] # "none"
    /\ cpc[o] = "idle"
    /\ nops[o] < MaxOps
    /\ nops' = [nops EXCEPT ![o] = @ + 1]
    /\ shutdowns' = [shutdowns EXCEPT ![o] = @ + 1]
    /\ IF already_shut_down(closeF[o], exitF[o])
       THEN UNCHANGED <<exitF, cpc>>
       ELSE /\ exitF' = [exitF EXCEPT ![o] = halt(exitF[o])]
            /\ cpc' = [cpc EXCEPT ![o] = "shutdown_notify"]
    /\ UNCHANGED <<closeF, tpc, cleanups>>
    /\ UNCHANGED <<life_sockets, removes, redundant>>
    /\ UNCHANGED notLife

\* Base.halt(): `with self.exit_condition: self.exit_condition.notify_all()`
HaltNotify(o) ==
    /\ cpc[o] \in {"halt_notify", "shutdown_notify"}
    /\ tpc' = [tpc EXCEPT ![o] = notify_all(tpc[o])]
    /\ cpc' = [cpc EXCEPT ![o] = IF cpc[o] = "halt_notify" THEN "idle" ELSE "set_close"]
    /\ UNCHANGED <<exitF, closeF, cleanups, shutdowns, nops>>
    /\ UNCHANGED <<life_sockets, removes, redundant>>
    /\ UNCHANGED notLife

\* Base.shutdown(): `self.close = True` (block is False: returns)
ShutdownSetClose(o) ==
    /\ cpc[o] = "set_close"
    /\ closeF' = [closeF EXCEPT ![o] = TRUE]
    /\ cpc' = [cpc EXCEPT ![o] = "idle"]
    /\ UNCHANGED <<exitF, tpc, cleanups, shutdowns, nops>>
    /\ UNCHANGED <<life_sockets, removes, redundant>>
    /\ UNCHANGED notLife

\* Base._exit_trigger after wait() returns: `finally: if self.close:
\* self.cleanup()`, then shutdown_condition.notify_all(); the thread ends.
\* SocketHandler.cleanup closes the socket and calls node.remove_socket(self.id)
TriggerFinally(o) ==
    /\ tpc[o] = "woken"
    /\ cleanups' = [cleanups EXCEPT ![o] = IF closeF[o] THEN @ + 1 ELSE @]
    /\ tpc' = [tpc EXCEPT ![o] = "done"]
    /\ IF closeF[o] /\ o = "SocketHandler"
       THEN /\ removes' = removes + 1
            /\ life_sockets' = remove_socket(life_sockets, o, exitF[o]).sockets
       ELSE UNCHANGED <<life_sockets, removes>>
    /\ UNCHANGED <<exitF, closeF, cpc, shutdowns, nops, redundant>>
    /\ UNCHANGED notLife

\* Node.remove_socket(id) called once more for the SocketHandler (by
\* transfer_socket, or a second notification): an id that is not in the index
\* is logged, a handler that is not halted makes the Node throw (shutdown()),
\* a halted one is deleted
NodeRemoveAgain ==
    LET r == remove_socket(life_sockets, "SocketHandler", exitF["SocketHandler"]) IN
    \/ r.throw /\ CallShutdown("Node")
    \/ /\ ~r.throw
       /\ redundant < MaxOps
       /\ life_sockets' = r.sockets
       /\ redundant' = IF "SocketHandler" \in life_sockets THEN redundant ELSE redundant + 1
       /\ UNCHANGED <<exitF, closeF, tpc, cpc, cleanups, shutdowns, nops, removes>>
       /\ UNCHANGED notLife

LifeNext ==
    \/ \E o \in Objs : RunExitTrigger(o)
    \/ \E o \in Objs : TriggerWait(o)
    \/ \E o \in Objs : CallHalt(o)
    \/ \E o \in Objs : CallShutdown(o)
    \/ \E o \in Objs : HaltNotify(o)
    \/ \E o \in Objs : ShutdownSetClose(o)
    \/ \E o \in Objs : TriggerFinally(o)
    \/ NodeRemoveAgain

\* every started thread keeps running: the trigger thread and the thread inside
\* halt()/shutdown() take their next step
LifeFair ==
    \A o \in Objs :
        /\ WF_<<exitF, closeF, tpc, cpc, cleanups, shutdowns, nops>>(TriggerWait(o))
        /\ WF_<<exitF, closeF, tpc, cpc, cleanups, shutdowns, nops>>(HaltNotify(o))
        /\ WF_<<exitF, closeF, tpc, cpc, cleanups, shutdowns, nops>>(ShutdownSetClose(o))
        /\ WF_<<exitF, closeF, tpc, cpc, cleanups, shutdowns, nops>>(TriggerFinally(o))

\* ------------------------------------------------- a Worker and its sockets
source_id == "source"
Handlers == {source_id, "other"}

\* list(self.sockets.values()): the index in insertion order, the source first
sockets_values(index) ==
    (IF source_id \in index THEN <<source_id>> ELSE <<>>)
        \o (IF "other" \in index THEN <<"other">> ELSE <<>>)

\* WorkerNode.remove_socket: `if socket_id == self.source_id`
is_source(socket_id) == socket_id = source_id

WorkInit ==
    /\ wsockets = Handlers
    /\ hexit = [h \in Handlers |-> FALSE]
    /\ hclose = [h \in Handlers |-> FALSE]
    /\ hrun = [h \in Handlers |-> "none"]
    /\ htrig = [h \in Handlers |-> "none"]
    /\ wexit = FALSE
    /\ wclose = FALSE
    /\ wtrig = "started"
    /\ wtodo = <<>>
    /\ wcur = None
    /\ sentShutdown = 0

\* WorkerNode._run: handler.run() starts the handler's RUN and CLEANUP threads
WorkerRunSocket(h) ==
    /\ hrun[h] = "none"
    /\ hrun' = [hrun EXCEPT ![h] = "reading"]
    /\ htrig' = [htrig EXCEPT ![h] = "started"]
    /\ UNCHANGED <<wsockets, hexit, hclose, wexit, wclose, wtrig, wtodo, wcur,
                   sentShutdown>>
    /\ UNCHANGED notWork

\* SocketHandler.read on the RUN thread: the peer closed, an I/O error or an
\* over-long line raise BrokenPipeError and read calls self.shutdown(); the
\* loop of _run then ends on the exit flag
HandlerReadFails(h) ==
    /\ hrun[h] = "reading"
    /\ IF already_shut_down(hclose[h], hexit[h])
       THEN /\ hrun' = [hrun EXCEPT ![h] = "ended"]
            /\ UNCHANGED hexit
       ELSE /\ hexit' = [hexit EXCEPT ![h] = halt(hexit[h])]
            /\ hrun' = [hrun EXCEPT ![h] = "notify"]
    /\ UNCHANGED <<wsockets, hclose, htrig, wexit, wclose, wtrig, wtodo, wcur,
                   sentShutdown>>
    /\ UNCHANGED notWork

\* Base.halt() inside the handler's shutdown(): exit_condition.notify_all()
HandlerRunNotify(h) ==
    /\ hrun[h] = "notify"
    /\ htrig' = [htrig EXCEPT ![h] = notify_all(htrig[h])]
    /\ hrun' = [hrun EXCEPT ![h] = "set_close"]
    /\ UNCHANGED <<wsockets, hexit, hclose, wexit, wclose, wtrig, wtodo, wcur,
                   sentShutdown>>
    /\ UNCHANGED notWork

\* Base.shutdown() of the handler: `self.close = True`; _run ends
HandlerRunSetClose(h) ==
    /\ hrun[h] = "set_close"
    /\ hclose' = [hclose EXCEPT ![h] = TRUE]
    /\ hrun' = [hrun EXCEPT ![h] = "ended"]
    /\ UNCHANGED <<wsockets, hexit, htrig, wexit, wclose, wtrig, wtodo, wcur,
                   sentShutdown>>
    /\ UNCHANGED notWork

\* the handler's _exit_trigger reaches exit_condition.wait()
HandlerTriggerWait(h) ==
    /\ htrig[h] = "started"
    /\ htrig' = [htrig EXCEPT ![h] = enters_wait(hexit[h])]
    /\ UNCHANGED <<wsockets, hexit, hclose, hrun, wexit, wclose, wtrig, wtodo, wcur,
                   sentShutdown>>
    /\ UNCHANGED notWork

\* the handler's _exit_trigger after wait(): `if self.close: self.cleanup()`;
\* SocketHandler.cleanup closes the socket and goes on to node.remove_socket
HandlerTriggerFinally(h) ==
    /\ htrig[h] = "woken"
    /\ htrig' = [htrig EXCEPT ![h] = IF hclose[h] THEN "remove" ELSE "notify_done"]
    /\ UNCHANGED <<wsockets, hexit, hclose, hrun, wexit, wclose, wtrig, wtodo, wcur,
                   sentShutdown>>
    /\ UNCHANGED notWork

\* SocketHandler.cleanup: self.node.remove_socket(self.id), which is
\* WorkerNode.remove_socket: the source socket starts the Worker's shutdown()
\* and returns, every other socket goes to Node.remove_socket
HandlerTriggerRemove(h) ==
    /\ htrig[h] = "remove"
    /\ LET r == remove_socket(wsockets, h, hexit[h])
           shuts == IF is_source(h) THEN TRUE ELSE r.throw
       IN /\ wsockets' = IF is_source(h) THEN wsockets ELSE r.sockets
          /\ IF shuts /\ ~already_shut_down(wclose, wexit)
             THEN /\ wexit' = halt(wexit)
                  /\ htrig' = [htrig EXCEPT ![h] = "worker_notify"]
             ELSE /\ UNCHANGED wexit
                  /\ htrig' = [htrig EXCEPT ![h] = "notify_done"]
    /\ UNCHANGED <<hexit, hclose, hrun, wclose, wtrig, wtodo, wcur, sentShutdown>>
    /\ UNCHANGED notWork

\* Base.halt() inside the Worker's shutdown(): exit_condition.notify_all()
HandlerTriggerWorkerNotify(h) ==
    /\ htrig[h] = "worker_notify"
    /\ wtrig' = notify_all(wtrig)
    /\ htrig' = [htrig EXCEPT ![h] = "worker_close"]
    /\ UNCHANGED <<wsockets, hexit, hclose, hrun, wexit, wclose, wtodo, wcur,
                   sentShutdown>>
    /\ UNCHANGED notWork

\* Base.shutdown() of the Worker: `self.close = True`
HandlerTriggerWorkerClose(h) ==
    /\ htrig[h] = "worker_close"
    /\ wclose' = TRUE
    /\ htrig' = [htrig EXCEPT ![h] = "notify_done"]
    /\ UNCHANGED <<wsockets, hexit, hclose, hrun, wexit, wtrig, wtodo, wcur,
                   sentShutdown>>
    /\ UNCHANGED notWork

\* the handler's _exit_trigger, last statement: shutdown_condition.notify_all()
\* wakes a shutdown(block=True) that is waiting on this handler
HandlerTriggerDone(h) ==
    /\ htrig[h] = "notify_done"
    /\ htrig' = [htrig EXCEPT ![h] = "done"]
    /\ wtrig' = IF wtrig = "block_wait" /\ wcur = h THEN "next" ELSE wtrig
    /\ UNCHANGED <<wsockets, hexit, hclose, hrun, wexit, wclose, wtodo, wcur,
                   sentShutdown>>
    /\ UNCHANGED notWork

\* WorkerNode.run: run_exit_trigger(block=True) reaches exit_condition.wait()
WorkerTriggerWait ==
    /\ wtrig = "started"
    /\ wtrig' = enters_wait(wexit)
    /\ UNCHANGED <<wsockets, hexit, hclose, hrun, htrig, wexit, wclose, wtodo, wcur,
                   sentShutdown>>
    /\ UNCHANGED notWork

\* the Worker's _exit_trigger after wait(): `if self.close: self.cleanup()`;
\* Node.cleanup takes list(self.sockets.values())
WorkerTriggerFinally ==
    /\ wtrig = "woken"
    /\ IF wclose
       THEN /\ wtrig' = "next"
            /\ wtodo' = sockets_values(wsockets)
       ELSE /\ wtrig' = "done"
            /\ UNCHANGED wtodo
    /\ UNCHANGED <<wsockets, hexit, hclose, hrun, htrig, wexit, wclose, wcur,
                   sentShutdown>>
    /\ UNCHANGED notWork

\* Node.cleanup: `for sock in ...: sock.shutdown(block=True)`, up to halt()'s
\* `self.exit = True`; after the last socket WorkerNode.cleanup goes on
WorkerCleanupNext ==
    /\ wtrig = "next"
    /\ IF wtodo = <<>>
       THEN /\ wtrig' = "send"
            /\ UNCHANGED <<wtodo, wcur, hexit>>
       ELSE /\ wtodo' = Tail(wtodo)
            /\ IF already_shut_down(hclose[Head(wtodo)], hexit[Head(wtodo)])
               THEN UNCHANGED <<wtrig, wcur, hexit>>
               ELSE /\ wcur' = Head(wtodo)
                    /\ hexit' = [hexit EXCEPT ![Head(wtodo)] = halt(@)]
                    /\ wtrig' = "block_notify"
    /\ UNCHANGED <<wsockets, hclose, hrun, htrig, wexit, wclose, sentShutdown>>
    /\ UNCHANGED notWork

\* sock.shutdown(block=True): halt()'s exit_condition.notify_all()
WorkerCleanupNotify ==
    /\ wtrig = "block_notify"
    /\ htrig' = [htrig EXCEPT ![wcur] = notify_all(htrig[wcur])]
    /\ wtrig' = "block_close"
    /\ UNCHANGED <<wsockets, hexit, hclose, hrun, wexit, wclose, wtodo, wcur,
                   sentShutdown>>
    /\ UNCHANGED notWork

\* sock.shutdown(block=True): `self.close = True`
WorkerCleanupSetClose ==
    /\ wtrig = "block_close"
    /\ hclose' = [hclose EXCEPT ![wcur] = TRUE]
    /\ wtrig' = "block_enter"
    /\ UNCHANGED <<wsockets, hexit, hrun, htrig, wexit, wclose, wtodo, wcur,
                   sentShutdown>>
    /\ UNCHANGED notWork

\* sock.shutdown(block=True): `with self.shutdown_condition: wait()`
WorkerCleanupWait ==
    /\ wtrig = "block_enter"
    /\ wtrig' = "block_wait"
    /\ UNCHANGED <<wsockets, hexit, hclose, hrun, htrig, wexit, wclose, wtodo, wcur,
                   sentShutdown>>
    /\ UNCHANGED notWork

\* WorkerNode.cleanup: self.pipe.send('SHUTDOWN'); the main thread ends
WorkerCleanupSend ==
    /\ wtrig = "send"
    /\ sentShutdown' = sentShutdown + 1
    /\ wtrig' = "done"
    /\ UNCHANGED <<wsockets, hexit, hclose, hrun, htrig, wexit, wclose, wtodo, wcur>>
    /\ UNCHANGED notWork

WorkNext ==
    \/ \E h \in Handlers : WorkerRunSocket(h)
    \/ \E h \in Handlers : HandlerReadFails(h)
    \/ \E h \in Handlers : HandlerRunNotify(h)
    \/ \E h \in Handlers : HandlerRunSetClose(h)
    \/ \E h \in Handlers : HandlerTriggerWait(h)
    \/ \E h \in Handlers : HandlerTriggerFinally(h)
    \/ \E h \in Handlers : HandlerTriggerRemove(h)
    \/ \E h \in Handlers : HandlerTriggerWorkerNotify(h)
    \/ \E h \in Handlers : HandlerTriggerWorkerClose(h)
    \/ \E h \in Handlers : HandlerTriggerDone(h)
    \/ WorkerTriggerWait
    \/ WorkerTriggerFinally
    \/ WorkerCleanupNext
    \/ WorkerCleanupNotify
    \/ WorkerCleanupSetClose
    \/ WorkerCleanupWait
    \/ WorkerCleanupSend

\* every thread of the Worker process keeps running; only the failure of a
\* read (the peer's doing) is not forced
WorkFair ==
    /\ \A h \in Handlers :
        /\ WF_workVars(WorkerRunSocket(h))
        /\ WF_workVars(HandlerRunNotify(h))
        /\ WF_workVars(HandlerRunSetClose(h))
        /\ WF_workVars(HandlerTriggerWait(h))
        /\ WF_workVars(HandlerTriggerFinally(h))
        /\ WF_workVars(HandlerTriggerRemove(h))
        /\ WF_workVars(HandlerTriggerWorkerNotify(h))
        /\ WF_workVars(HandlerTriggerWorkerClose(h))
        /\ WF_workVars(HandlerTriggerDone(h))
    /\ WF_workVars(WorkerTriggerWait)
    /\ WF_workVars(WorkerTriggerFinally)
    /\ WF_workVars(WorkerCleanupNext)
    /\ WF_workVars(WorkerCleanupNotify)
    /\ WF_workVars(WorkerCleanupSetClose)
    /\ WF_workVars(WorkerCleanupWait)
    /\ WF_workVars(WorkerCleanupSend)

\* ------------------------------------------------------ bytes and strings
\* A byte string (and a decoded str) is a sequence of one-character strings.
\* None for a str-valued or bytes-valued attribute
NoneStr == <<"None">>

CRLF == <<"\r", "\n">>
Whitespace == {" ", "\r", "\n", "\t"}
DigitChars == <<"0", "1", "2", "3", "4", "5", "6", "7", "8", "9">>

\* the smallest element of a non-empty set of numbers
MinOf(S) == CHOOSE x \in S : \A y \in S : x <= y

\* str.find(c): the first index of the character c in s, 0 when absent
Find(s, c) ==
    LET at == {i \in DOMAIN s : s[i] = c}
    IN IF at = {} THEN 0 ELSE MinOf(at)

\* str.lower() on the letters used
LowerMap ==
    "A" :> "a" @@ "B" :> "b" @@ "C" :> "c" @@ "D" :> "d" @@ "E" :> "e" @@ "F" :> "f" @@ "G" :> "g" @@ "H" :> "h" @@ "I" :> "i" @@ "J" :> "j" @@ "K" :> "k" @@ "L" :> "l" @@ "M" :> "m" @@
    "N" :> "n" @@ "O" :> "o" @@ "P" :> "p" @@ "Q" :> "q" @@ "R" :> "r" @@ "S" :> "s" @@ "T" :> "t" @@ "U" :> "u" @@ "V" :> "v" @@ "W" :> "w" @@ "X" :> "x" @@ "Y" :> "y" @@ "Z" :> "z"
LowerChar(c) == IF c \in DOMAIN LowerMap THEN LowerMap[c] ELSE c
Lower(s) == [i \in DOMAIN s |-> LowerChar(s[i])]

\* str.strip(): drop leading and trailing whitespace
RECURSIVE LStrip(_)
LStrip(s) == IF s # <<>> /\ Head(s) \in Whitespace THEN LStrip(Tail(s)) ELSE s
RECURSIVE RStrip(_)
RStrip(s) ==
    IF s # <<>> /\ s[Len(s)] \in Whitespace THEN RStrip(SubSeq(s, 1, Len(s) - 1)) ELSE s
Strip(s) == RStrip(LStrip(s))

\* str.split(): the maximal runs of non-whitespace characters
RECURSIVE Split(_)
Split(s) ==
    LET t == LStrip(s)
        ws == {i \in DOMAIN t : t[i] \in Whitespace}
    IN IF t = <<>> THEN <<>>
       ELSE IF ws = {} THEN <<t>>
       ELSE <<SubSeq(t, 1, MinOf(ws) - 1)>> \o Split(SubSeq(t, MinOf(ws), Len(t)))

\* str.split(c): the pieces between the occurrences of the character c
RECURSIVE SplitAt(_, _)
SplitAt(s, c) ==
    IF Find(s, c) = 0 THEN <<s>>
    ELSE <<SubSeq(s, 1, Find(s, c) - 1)>> \o SplitAt(SubSeq(s, Find(s, c) + 1, Len(s)), c)

\* str.startswith
StartsWith(s, p) == Len(s) >= Len(p) /\ SubSeq(s, 1, Len(p)) = p

\* `sub in s` for strings
Contains(s, sub) ==
    \E i \in 1..(Len(s) - Len(sub) + 1) : SubSeq(s, i, i + Len(sub) - 1) = sub

\* str(n) for a non-negative int
RECURSIVE IntToStr(_)
IntToStr(n) ==
    IF n < 10 THEN <<DigitChars[n + 1]>>
    ELSE IntToStr(n \div 10) \o <<DigitChars[(n % 10) + 1]>>

\* int(s): defined on non-empty digit strings (anything else raises ValueError)
IsInt(s) == s # <<>> /\ \A i \in DOMAIN s : \E d \in DOMAIN DigitChars : DigitChars[d] = s[i]
DigitVal(c) == (CHOOSE d \in DOMAIN DigitChars : DigitChars[d] = c) - 1
RECURSIVE StrToInt(_)
StrToInt(s) ==
    IF s = <<>> THEN 0
    ELSE StrToInt(SubSeq(s, 1, Len(s) - 1)) * 10 + DigitVal(s[Len(s)])

\* a dict as a sequence of <<key, value>> pairs in insertion order
DictGet(d, k) ==
    LET at == {i \in DOMAIN d : d[i][1] = k}
    IN IF at = {} THEN NoneStr ELSE d[MinOf(at)][2]
DictSet(d, k, v) ==
    IF \E i \in DOMAIN d : d[i][1] = k
    THEN [i \in DOMAIN d |-> IF d[i][1] = k THEN <<k, v>> ELSE d[i]]
    ELSE Append(d, <<k, v>>)
DictItems(d) == {d[i] : i \in DOMAIN d}

\* the strings of the protocol
SP == <<" ">>
HTTP_1_1 == <<"H", "T", "T", "P", "/", "1", ".", "1">>
HTTP_slash == <<"H", "T", "T", "P", "/">>
content_length == <<"c", "o", "n", "t", "e", "n", "t", "-", "l", "e", "n", "g", "t", "h">>

\* ------------------------------------------------------------ SocketHandler.read
\* BufferedReader.readline() on the pull buffer: through the first "\n", or
\* everything up to the end of the stream once the peer has closed; otherwise
\* the call blocks
readline(buf, closed) ==
    IF Find(buf, "\n") > 0
    THEN [blocked |-> FALSE, line |-> SubSeq(buf, 1, Find(buf, "\n")),
          rest |-> SubSeq(buf, Find(buf, "\n") + 1, Len(buf))]
    ELSE IF closed THEN [blocked |-> FALSE, line |-> buf, rest |-> <<>>]
    ELSE [blocked |-> TRUE, line |-> <<>>, rest |-> buf]

EndsWithCRLF(data) == Len(data) >= 2 /\ SubSeq(data, Len(data) - 1, Len(data)) = CRLF

\* read(length, line=True), the loop `while data and data[-2:] != CRLF and not
\* self.exit: data += readline(); if len(data) > length: throw, raise`.
\* "spin": at the end of the stream readline() adds nothing and the loop never ends
RECURSIVE read_line_more(_, _, _, _)
read_line_more(data, buf, closed, length) ==
    LET next == readline(buf, closed)
        more == data \o next.line
    IN IF next.blocked THEN [status |-> "blocked", data |-> <<>>, rest |-> buf]
       ELSE IF Len(more) > length THEN [status |-> "error", data |-> <<>>, rest |-> next.rest]
       ELSE IF EndsWithCRLF(more) THEN [status |-> "ok", data |-> Strip(more), rest |-> next.rest]
       ELSE IF next.line = <<>> THEN [status |-> "spin", data |-> <<>>, rest |-> next.rest]
       ELSE read_line_more(more, next.rest, closed, length)

\* SocketHandler.read(length, line=True): "ok" with the decoded, stripped line;
\* "error" when read shut the handler down and returned None
read_line(buf, closed, length) ==
    LET first == readline(buf, closed)
    IN IF first.blocked THEN [status |-> "blocked", data |-> <<>>, rest |-> buf]
       ELSE IF first.line = <<>> THEN [status |-> "error", data |-> <<>>, rest |-> <<>>]
       ELSE IF EndsWithCRLF(first.line)
            THEN [status |-> "ok", data |-> Strip(first.line), rest |-> first.rest]
       ELSE read_line_more(first.line, first.rest, closed, length)

\* BufferedReader.read(n): n bytes, or what is left once the peer has closed
Take(buf, n) == SubSeq(buf, 1, IF n < Len(buf) THEN n ELSE Len(buf))
Drop(buf, n) == SubSeq(buf, (IF n < Len(buf) THEN n ELSE Len(buf)) + 1, Len(buf))

\* read(length, line=False), the loop `while data and data_len < length and not
\* self.exit: length -= data_len; data += read(length); data_len = len(data)`
RECURSIVE read_exact_more(_, _, _)
read_exact_more(data, buf, length) ==
    IF data # <<>> /\ Len(data) < length
    THEN read_exact_more(data \o Take(buf, length - Len(data)),
                         Drop(buf, length - Len(data)), length - Len(data))
    ELSE [data |-> data, rest |-> buf]

\* SocketHandler.read(length, line=False, decode=False)
read_exact(buf, closed, length) ==
    IF Len(buf) < length /\ ~closed
    THEN [status |-> "blocked", data |-> <<>>, rest |-> buf]
    ELSE LET r == read_exact_more(Take(buf, length), Drop(buf, length), length)
         IN IF r.data = <<>> THEN [status |-> "error", data |-> <<>>, rest |-> r.rest]
            ELSE [status |-> "ok", data |-> r.data, rest |-> r.rest]

\* ----------------------------------------------------------------- Request
\* Request.__init__: a new, empty request
NewRequest ==
    [method |-> NoneStr, code |-> NoneStr, message |-> NoneStr, version |-> HTTP_1_1,
     path |-> NoneStr, queries |-> <<>>, header |-> <<>>, content |-> NoneStr]

\* Python truth value of a str/bytes attribute: None and '' are false
Truthy(s) == s # NoneStr /\ s # <<>>

\* "{}".format(x): None is printed as the text None
Fmt(s) == IF s = NoneStr THEN <<"N", "o", "n", "e">> ELSE s

\* Request.add_request(method, path='/', version='HTTP/1.1')
add_request(r, method, path) ==
    [r EXCEPT !.method = method, !.path = path, !.version = HTTP_1_1]

\* Request.add_header(keyword, value)
add_header(r, keyword, value) ==
    [r EXCEPT !.header = DictSet(r.header, Lower(keyword), value)]

\* Request.add_response: the messages of the response codes
messages(code) ==
    IF code = 200 THEN <<"O", "K">>
    ELSE IF code = 204 THEN <<"N", "o", " ", "C", "o", "n", "t", "e", "n", "t">>
    ELSE IF code = 301 THEN <<"M", "o", "v", "e", "d", " ", "P", "e", "r", "m", "a", "n", "e", "n", "t", "l", "y">>
    ELSE IF code = 304 THEN <<"N", "o", "t", " ", "M", "o", "d", "i", "f", "i", "e", "d">>
    ELSE IF code = 308 THEN <<"P", "e", "r", "m", "a", "n", "e", "n", "t", " ", "R", "e", "d", "i", "r", "e", "c", "t">>
    ELSE IF code = 404 THEN <<"N", "o", "t", " ", "F", "o", "u", "n", "d">>
    ELSE <<"M", "e", "t", "h", "o", "d", " ", "N", "o", "t", " ", "A", "l", "l", "o", "w", "e", "d">>

\* Request.add_response(code): code, message and the Server and Date headers
\* (get_date() at a sample instant)
add_response(r, code) ==
    add_header(
        add_header([r EXCEPT !.code = IntToStr(code), !.message = messages(code)],
                   <<"S", "e", "r", "v", "e", "r">>, <<"S", "t", "r", "e", "a", "m", "i", "n", "g", "S", "e", "r", "v", "e", "r", " ", "P", "y", "t", "h", "o", "n", "/", "3", ".", "7", ".", "3">>),
        <<"D", "a", "t", "e">>, <<"W", "e", "d", ",", " ", "0", "4", " ", "N", "o", "v", " ", "2", "0", "2", "6", " ", "0", "0", ":", "0", "0", ":", "0", "0", " ", "G", "M", "T">>)

\* Request.add_content(content) with str or bytes content
add_content(r, content) ==
    IF content # <<>>
    THEN [add_header(r, content_length, IntToStr(Len(content))) EXCEPT !.content = content]
    ELSE [r EXCEPT !.content = content]

\* Request.verify
verify(r) ==
    IF Truthy(r.method) /\ Truthy(r.code) THEN FALSE
    ELSE IF ~Truthy(r.method) /\ ~Truthy(r.code) /\ r.header # <<>> THEN FALSE
    ELSE TRUE

\* Request.format_request_line
format_request_line(r) ==
    IF Truthy(r.method) THEN Fmt(r.method) \o SP \o Fmt(r.path) \o SP \o Fmt(r.version) \o CRLF
    ELSE IF Truthy(r.code) THEN Fmt(r.version) \o SP \o Fmt(r.code) \o SP \o Fmt(r.message) \o CRLF
    ELSE <<>>

\* Request.format_headers: "key: value\r\n" per header, then a blank line if
\* there is at least one header
RECURSIVE format_header_lines(_)
format_header_lines(h) ==
    IF h = <<>> THEN <<>>
    ELSE Fmt(h[1][1]) \o <<":", " ">> \o Fmt(h[1][2]) \o CRLF \o format_header_lines(Tail(h))
format_headers(r) ==
    format_header_lines(r.header) \o (IF r.header # <<>> THEN CRLF ELSE <<>>)

\* Request.get_data: NoneStr when verify fails
get_data(r) ==
    IF ~verify(r) THEN NoneStr
    ELSE format_request_line(r) \o format_headers(r)
            \o (IF r.content # NoneStr THEN r.content ELSE CRLF)

\* ---------------------------------------------------- SocketHandler parsing
max_len_request_line == 256
max_num == 32
max_len == 1024

\* the result of a parsing step: "ok", "blocked" (the read waits for the peer),
\* "spin" (read loops for ever), "error" (the handler was shut down by throw or
\* by read, the step returned None/False), "raise" (an exception left
\* parse_request; _run catches it, throws and shuts the handler down)
Result(status, req, rest) == [status |-> status, req |-> req, rest |-> rest]

\* dict([pair.split('=') for pair in query.split('&')])
RECURSIVE query_dict(_)
query_dict(pairs) ==
    IF pairs = <<>> THEN <<>>
    ELSE LET d == query_dict(SubSeq(pairs, 1, Len(pairs) - 1))
             kv == SplitAt(pairs[Len(pairs)], "=")
         IN DictSet(d, kv[1], kv[2])
query_ok(query) == \A i \in DOMAIN SplitAt(query, "&") : Len(SplitAt(SplitAt(query, "&")[i], "=")) = 2

\* parse_request_line, from `words = line.split()` on
request_line_words(line, req, rest) ==
    LET words == Split(line) IN
    IF Len(words) # 3 THEN Result("error", req, rest)
    ELSE IF StartsWith(words[1], HTTP_slash)
    THEN Result("ok", [req EXCEPT !.version = words[1], !.code = words[2],
                                  !.message = words[3]], rest)
    ELSE IF Find(words[2], "?") = 0
    THEN Result("ok", [req EXCEPT !.method = words[1], !.version = words[3],
                                  !.path = words[2]], rest)
    ELSE IF Len(SplitAt(words[2], "?")) # 2 \/ ~query_ok(SplitAt(words[2], "?")[2])
    THEN Result("raise", req, rest)
    ELSE Result("ok", [req EXCEPT !.method = words[1], !.version = words[3],
                                  !.path = SplitAt(words[2], "?")[1],
                                  !.queries = query_dict(SplitAt(SplitAt(words[2], "?")[2], "&"))],
                rest)

\* SocketHandler.parse_request_line: blank lines are skipped
RECURSIVE parse_request_line(_, _, _)
parse_request_line(buf, closed, req) ==
    LET r == read_line(buf, closed, max_len_request_line) IN
    IF r.status # "ok" THEN Result(r.status, req, r.rest)
    ELSE IF r.data = <<>> THEN parse_request_line(r.rest, closed, req)
    ELSE request_line_words(r.data, req, r.rest)

\* SocketHandler.parse_header: `for _ in range(max_num)`, n lines read so far
RECURSIVE parse_header_from(_, _, _, _)
parse_header_from(buf, closed, req, n) ==
    IF n = max_num THEN Result("error", req, buf)
    ELSE LET r == read_line(buf, closed, max_len) IN
         IF r.status # "ok" THEN Result(r.status, req, r.rest)
         ELSE IF r.data = <<>> THEN Result("ok", req, r.rest)
         ELSE IF Find(r.data, ":") = 0 THEN Result("error", req, r.rest)
         ELSE parse_header_from(
                r.rest, closed,
                [req EXCEPT !.header =
                    DictSet(req.header,
                            Lower(SubSeq(r.data, 1, Find(r.data, ":") - 1)),
                            Strip(SubSeq(r.data, Find(r.data, ":") + 1, Len(r.data))))],
                n + 1)
parse_header(buf, closed, req) == parse_header_from(buf, closed, req, 0)

host_keywords == {<<"w", "e", "b", "r", "e", "d", "i", "r", "e", "c", "t">>, <<"d", "d", "n", "s", "f", "r", "e", "e">>}
agent_keywords == {<<"n", "i", "m", "b", "o", "s", "t", "r", "a", "t", "u", "s">>, <<"c", "l", "o", "u", "d", "s", "y", "s", "t", "e", "m", "n", "e", "t", "w", "o", "r", "k", "s">>, <<"b", "o", "t">>}

\* SocketHandler.validate: host_string is the 1-tuple (header.get('host'),), so
\* `keyword in host_string` compares the whole header value with the keyword;
\* agent_string is searched for each keyword
validate(req) ==
    /\ DictGet(req.header, <<"h", "o", "s", "t">>) \notin host_keywords
    /\ ~(Truthy(DictGet(req.header, <<"u", "s", "e", "r", "-", "a", "g", "e", "n", "t">>))
         /\ \E k \in agent_keywords : Contains(DictGet(req.header, <<"u", "s", "e", "r", "-", "a", "g", "e", "n", "t">>), k))

\* SocketHandler.parse_content
parse_content(buf, closed, req) ==
    LET length == DictGet(req.header, content_length) IN
    IF ~Truthy(length) THEN Result("ok", req, buf)
    ELSE IF ~IsInt(length) THEN Result("raise", req, buf)
    ELSE LET r == read_exact(buf, closed, StrToInt(length)) IN
         IF r.status = "ok" THEN Result("ok", [req EXCEPT !.content = r.data], r.rest)
         ELSE Result(r.status, req, r.rest)

\* SocketHandler.parse_request on a fresh self.request
parse_request(buf, closed) ==
    LET a == parse_request_line(buf, closed, NewRequest) IN
    IF a.status # "ok" THEN a
    ELSE LET b == parse_header(a.rest, closed, a.req) IN
         IF b.status # "ok" THEN b
         ELSE IF ~validate(b.req) THEN Result("error", b.req, b.rest)
         ELSE parse_content(b.rest, closed, b.req)

\* ------------------------------------------------- encoding and decoding
GET == <<"G", "E", "T">>
SamplePath == <<"/", "p">>
SampleQueries == <<<<<<"a">>, <<"1">>>>>>
SampleKey == <<"K", "e", "y">>
SampleKey2 == <<"k", "2">>
SampleValue == <<"v">>
SampleContent == <<"x", "y", "z">>

\* the keys of the messages dict of Request.add_response
ResponseCodes == {200, 204, 301, 304, 308, 404, 405}

\* the requests a Node builds: a request line or a response line, ...
CodecStartLines ==
    {add_request(NewRequest, GET, SamplePath),
     [add_request(NewRequest, GET, SamplePath) EXCEPT !.queries = SampleQueries],
     add_response(NewRequest, 200),
     add_response(NewRequest, 404)}
        \cup {add_response(NewRequest, code) : code \in ResponseCodes}

\* ... no more headers, one header, one header set with an upper-case key, two
\* headers, ...
CodecWithHeaders(r) ==
    {r,
     add_header(r, SampleKey, SampleValue),
     [r EXCEPT !.header = DictSet(r.header, SampleKey, SampleValue)],
     add_header(add_header(r, SampleKey, SampleValue), SampleKey2, SampleValue)}

\* ... and no content, empty content or some content
CodecWithContent(r) == {r, add_content(r, <<>>), add_content(r, SampleContent)}

CodecRequests ==
    UNION {UNION {CodecWithContent(h) : h \in CodecWithHeaders(s)} : s \in CodecStartLines}

\* the frame that follows on the same connection
NextFrame == <<"G", "E", "T", " ", "/", "n", " ", "H", "T", "T", "P", "/", "1", ".", "1", "\r", "\n", "\r", "\n">>

NotParsed == Result("none", NewRequest, <<>>)

CodecInit ==
    /\ creq \in CodecRequests
    /\ cdata = NoneStr
    /\ cparsed = NotParsed
    /\ codec_pc = "new"

CodecParked ==
    /\ creq = NewRequest
    /\ cdata = NoneStr
    /\ cparsed = NotParsed
    /\ codec_pc = "parked"

\* SocketHandler.send(response): data = response.get_data()
Encode ==
    /\ codec_pc = "new"
    /\ cdata' = get_data(creq)
    /\ codec_pc' = "encoded"
    /\ UNCHANGED <<creq, cparsed>>
    /\ UNCHANGED notCodec

\* the receiving SocketHandler: parse_request on these bytes and what follows
Decode ==
    /\ codec_pc = "encoded"
    /\ cdata # NoneStr
    /\ cparsed' = parse_request(cdata \o NextFrame, FALSE)
    /\ codec_pc' = "decoded"
    /\ UNCHANGED <<creq, cdata>>
    /\ UNCHANGED notCodec

CodecNext ==
    \/ Encode
    \/ Decode

\* ------------------------------------------------- SocketHandler._run, reading
Repeat(c, n) == [i \in 1..n |-> c]

RECURSIVE Concat(_)
Concat(ss) == IF ss = <<>> THEN <<>> ELSE Head(ss) \o Concat(Tail(ss))

\* a request line of exactly n bytes (CRLF not counted): GET /aaa...a HTTP/1.1
StartLineOf(n) == GET \o <<" ", "/">> \o Repeat("a", n - 14) \o <<" ">> \o HTTP_1_1
ShortStartLine == GET \o <<" ", "/">> \o <<" ">> \o HTTP_1_1

\* the i-th header line, and a header line of exactly n characters
HeaderLine(i) == <<"k">> \o IntToStr(i) \o <<":", " ", "v">>
HeaderLineOf(n) == <<"k", ":", " ">> \o Repeat("v", n - 3)

\* values of a host or user-agent header: harmless, with a listed keyword
\* inside, a listed keyword itself
HeaderValues(kind) ==
    LET keyword == IF kind = "host" THEN <<"d", "d", "n", "s", "f", "r", "e", "e">> ELSE <<"b", "o", "t">>
    IN <<<<"e", "x", "a", "m", "p", "l", "e">>, <<"a", ".">> \o keyword \o <<".", "b">>, keyword>>
HeaderName(kind) == IF kind = "host" THEN <<"H", "o", "s", "t">> ELSE <<"U", "s", "e", "r", "-", "A", "g", "e", "n", "t">>

\* the frames a peer may send
PeerInputs ==
    [kind : {"headers"}, n : {0, 1, max_num - 1, max_num, max_num + 1}, crlf : {TRUE}]
    \cup [kind : {"start_line"}, n : {max_len_request_line, max_len_request_line + 1}, crlf : BOOLEAN]
    \cup [kind : {"header_line"}, n : {max_len, max_len + 1}, crlf : BOOLEAN]
    \cup [kind : {"body"}, n : 0..BodyLen, crlf : {TRUE}]
    \cup [kind : {"two_words", "no_colon"}, n : {0}, crlf : {TRUE}]
    \cup [kind : {"host", "user_agent"}, n : DOMAIN HeaderValues("host"), crlf : {TRUE}]

BytesOf(in) ==
    CASE in.kind = "headers" ->
           ShortStartLine \o CRLF \o Concat([i \in 1..in.n |-> HeaderLine(i) \o CRLF]) \o CRLF
      [] in.kind = "start_line" ->
           StartLineOf(in.n) \o (IF in.crlf THEN CRLF \o CRLF ELSE <<>>)
      [] in.kind = "header_line" ->
           ShortStartLine \o CRLF \o HeaderLineOf(in.n) \o (IF in.crlf THEN CRLF \o CRLF ELSE <<>>)
      [] in.kind = "body" ->
           ShortStartLine \o CRLF \o content_length \o <<":", " ">> \o IntToStr(BodyLen) \o CRLF
           \o CRLF \o Repeat("x", in.n)
      [] in.kind \in {"host", "user_agent"} ->
           ShortStartLine \o CRLF
           \o HeaderName(in.kind) \o <<":", " ">> \o HeaderValues(in.kind)[in.n] \o CRLF
           \o content_length \o <<":", " ">> \o IntToStr(BodyLen) \o CRLF
           \o CRLF \o Repeat("x", BodyLen)
      [] in.kind = "two_words" -> GET \o <<" ", "/">> \o CRLF \o CRLF
      [] in.kind = "no_colon" -> ShortStartLine \o CRLF \o <<"k", " ", "v">> \o CRLF \o CRLF

\* SocketHandler.__init__: nothing received, self.request = Request(origin=self)
ParseInitWith(inputs) ==
    /\ peer_input \in inputs
    /\ unsent = BytesOf(peer_input)
    /\ pull_buffer = <<>>
    /\ peer_closed = FALSE
    /\ sh_request = NewRequest
    /\ parse_pc = "loop"
    /\ sh_exit = FALSE
    /\ sh_close = FALSE
    /\ dispatched = <<>>
ParseInit == ParseInitWith(PeerInputs)
ParseParked == ParseInitWith({[kind |-> "headers", n |-> 0, crlf |-> TRUE]}) /\ parse_pc = "loop"

\* the peer's bytes arrive in the handler's buffered reader
PeerSends ==
    /\ unsent # <<>>
    /\ ~peer_closed
    /\ pull_buffer' = pull_buffer \o unsent
    /\ unsent' = <<>>
    /\ UNCHANGED <<peer_input, peer_closed, sh_request, parse_pc, sh_exit, sh_close, dispatched>>
    /\ UNCHANGED notParse

\* the peer closes the connection after what it has sent
PeerCloses ==
    /\ unsent = <<>>
    /\ ~peer_closed
    /\ peer_closed' = TRUE
    /\ UNCHANGED <<peer_input, unsent, pull_buffer, sh_request, parse_pc, sh_exit, sh_close, dispatched>>
    /\ UNCHANGED notParse

\* how a parsing step that did not return True ends: read or throw has called
\* shutdown() and parse_request returns None ("error"), or the exception reaches
\* _run, which throws and shuts down ("raise"), or read never returns ("spin")
ParseStepFails(r) ==
    /\ r.status \in {"error", "raise", "spin"}
    /\ pull_buffer' = r.rest
    /\ sh_exit' = (r.status \in {"error", "raise"} \/ sh_exit)
    /\ sh_close' = (r.status \in {"error", "raise"} \/ sh_close)
    /\ parse_pc' = CASE r.status = "error" -> "loop"
                     [] r.status = "raise" -> "done"
                     [] r.status = "spin" -> "spinning"
    /\ UNCHANGED <<sh_request, dispatched>>

ParseStepOk(r, next_pc) ==
    /\ r.status = "ok"
    /\ pull_buffer' = r.rest
    /\ sh_request' = r.req
    /\ parse_pc' = next_pc
    /\ UNCHANGED <<sh_exit, sh_close, dispatched>>

\* _run: `while not self.exit`
ParseLoopCheck ==
    /\ parse_pc = "loop"
    /\ parse_pc' = IF sh_exit THEN "done" ELSE "request_line"
    /\ UNCHANGED <<peer_input, unsent, pull_buffer, peer_closed, sh_request, sh_exit, sh_close, dispatched>>
    /\ UNCHANGED notParse

\* parse_request: `if not self.parse_request_line(): return`
ParseRequestLine ==
    /\ parse_pc = "request_line"
    /\ LET r == parse_request_line(pull_buffer, peer_closed, sh_request)
       IN ParseStepOk(r, "header") \/ ParseStepFails(r)
    /\ UNCHANGED <<peer_input, unsent, peer_closed>>
    /\ UNCHANGED notParse

\* parse_request: `if not self.parse_header(): return`
ParseHeader ==
    /\ parse_pc = "header"
    /\ LET r == parse_header(pull_buffer, peer_closed, sh_request)
       IN ParseStepOk(r, "validate") \/ ParseStepFails(r)
    /\ UNCHANGED <<peer_input, unsent, peer_closed>>
    /\ UNCHANGED notParse

\* parse_request: `if not self.validate(): return`
ParseValidate ==
    /\ parse_pc = "validate"
    /\ LET r == Result(IF validate(sh_request) THEN "ok" ELSE "error", sh_request, pull_buffer)
       IN ParseStepOk(r, "content") \/ ParseStepFails(r)
    /\ UNCHANGED <<peer_input, unsent, peer_closed>>
    /\ UNCHANGED notParse

\* parse_request: `if not self.parse_content(): return`
ParseContent ==
    /\ parse_pc = "content"
    /\ LET r == parse_content(pull_buffer, peer_closed, sh_request)
       IN ParseStepOk(r, "handle") \/ ParseStepFails(r)
    /\ UNCHANGED <<peer_input, unsent, peer_closed>>
    /\ UNCHANGED notParse

\* parse_request returns the request, self.request = Request(origin=self), and
\* _run: `if request: self.node.HANDLE(request, threaded=True)`
ParseHandle ==
    /\ parse_pc = "handle"
    /\ dispatched' = Append(dispatched, sh_request)
    /\ sh_request' = NewRequest
    /\ parse_pc' = "loop"
    /\ UNCHANGED <<peer_input, unsent, pull_buffer, peer_closed, sh_exit, sh_close>>
    /\ UNCHANGED notParse

ParseNext ==
    \/ PeerSends
    \/ PeerCloses
    \/ ParseLoopCheck
    \/ ParseRequestLine
    \/ ParseHeader
    \/ ParseValidate
    \/ ParseContent
    \/ ParseHandle

\* ------------------------------------------------------------ GraphRingBuffer
RingSizes == 1..MaxSize
NoData == <<-1>>

\* a Python slice col[a:b] of a list (0-based, negative indexes count from the
\* end, both ends clamped to the list)
SliceIndex(col, i) ==
    IF i < 0 THEN (IF i + Len(col) < 0 THEN 0 ELSE i + Len(col))
    ELSE IF i > Len(col) THEN Len(col) ELSE i
Slice(col, a, b) == SubSeq(col, SliceIndex(col, a) + 1, SliceIndex(col, b))

\* GraphRingBuffer.sort: col[self.tail:] + col[:self.tail]
sort(col, tail) == Slice(col, tail, Len(col)) \o Slice(col, 0, tail)

\* GraphRingBuffer.update: tail, head and length after a sort
update(length, size) ==
    [tail |-> 0,
     head |-> IF length < size THEN length ELSE 0,
     length |-> IF length < size THEN length ELSE size]

\* GraphRingBuffer.set_size, the new list of the column (col is sorted already)
resized(col, size, old_size, length) ==
    IF size < old_size
    THEN Slice(col, (0 - size) - (old_size - length), length)
    ELSE col \o [i \in 1..(size - old_size) |-> 0]

\* GraphRingBuffer.write, one pass of `for i in range(length)` for point p;
\* the store raises IndexError when head is beyond the list
write_point(r, p) ==
    IF r.raised \/ r.head >= Len(r.data) THEN [r EXCEPT !.raised = TRUE]
    ELSE [r EXCEPT !.data = [r.data EXCEPT ![r.head + 1] = p],
                   !.head = (r.head + 1) % r.size,
                   !.tail = IF r.size = r.length THEN (r.tail + 1) % r.size ELSE r.tail,
                   !.length = IF r.size = r.length THEN r.length ELSE r.length + 1]

RECURSIVE write_points(_, _)
write_points(r, points) ==
    IF points = <<>> THEN r
    ELSE write_points(write_point(r, Head(points)), Tail(points))

\* GraphRingBuffer.__init__(column_names, size)
RingInit ==
    /\ ring_size \in RingSizes
    /\ ring_length = 0
    /\ ring_tail = 0
    /\ ring_head = 0
    /\ ring_data = [i \in 1..ring_size |-> 0]
    /\ ring_event = FALSE
    /\ read_all_pc = "idle"
    /\ read_all_data = NoData
    /\ ring_written = <<>>
    /\ ring_resizes = 0
    /\ ring_raised = FALSE

RingParked == RingInit /\ ring_size = 1

\* GraphRingBuffer.get_read_lock: the reader takes a new Event, which is set
RingGetReadLock ==
    /\ ~ring_event
    /\ read_all_pc = "idle"
    /\ ring_event' = TRUE
    /\ UNCHANGED <<ring_size, ring_length, ring_tail, ring_head, ring_data, read_all_pc,
                   read_all_data, ring_written, ring_resizes, ring_raised>>
    /\ UNCHANGED notRing

\* GraphRingBuffer.write(data) with n new points, under self.lock; the events
\* are set once the loop has ended without an exception
RingWrite(n) ==
    /\ Len(ring_written) + n <= MaxPoints
    /\ LET points == [i \in 1..n |-> Len(ring_written) + i]
           r == write_points([data |-> ring_data, head |-> ring_head, tail |-> ring_tail,
                              length |-> ring_length, size |-> ring_size, raised |-> FALSE],
                             points)
       IN /\ ring_data' = r.data
          /\ ring_head' = r.head
          /\ ring_tail' = r.tail
          /\ ring_length' = r.length
          /\ ring_raised' = r.raised
          /\ ring_event' = (ring_event \/ ~r.raised)
          /\ ring_written' = ring_written \o points
    /\ UNCHANGED <<ring_size, read_all_pc, read_all_data, ring_resizes>>
    /\ UNCHANGED notRing

\* GraphRingBuffer.set_size(size), under self.lock
RingSetSize(size) ==
    /\ ring_resizes < MaxResizes
    /\ ring_resizes' = ring_resizes + 1
    /\ IF size = ring_size
       THEN UNCHANGED <<ring_size, ring_length, ring_tail, ring_head, ring_data>>
       ELSE LET u == update(ring_length, size)
            IN /\ ring_data' = resized(sort(ring_data, ring_tail), size, ring_size, ring_length)
               /\ ring_size' = size
               /\ ring_tail' = u.tail
               /\ ring_head' = u.head
               /\ ring_length' = u.length
    /\ UNCHANGED <<ring_event, read_all_pc, read_all_data, ring_written, ring_raised>>
    /\ UNCHANGED notRing

\* GraphRingBuffer.read_all: the event is set (block or not); event.clear();
\* self.sort(), without self.lock
RingReadAllSort ==
    /\ read_all_pc = "idle"
    /\ ring_event
    /\ ring_event' = FALSE
    /\ ring_data' = sort(ring_data, ring_tail)
    /\ read_all_pc' = "sorted"
    /\ UNCHANGED <<ring_size, ring_length, ring_tail, ring_head, read_all_data,
                   ring_written, ring_resizes, ring_raised>>
    /\ UNCHANGED notRing

\* GraphRingBuffer.read_all: self.update(); return self.data
RingReadAllUpdate ==
    /\ read_all_pc = "sorted"
    /\ LET u == update(ring_length, ring_size)
       IN /\ ring_tail' = u.tail
          /\ ring_head' = u.head
          /\ ring_length' = u.length
    /\ read_all_data' = ring_data
    /\ read_all_pc' = "idle"
    /\ UNCHANGED <<ring_size, ring_data, ring_event, ring_written, ring_resizes, ring_raised>>
    /\ UNCHANGED notRing

RingNext ==
    \/ RingGetReadLock
    \/ \E n \in 1..MaxBatch : RingWrite(n)
    \/ \E size \in RingSizes : RingSetSize(size)
    \/ RingReadAllSort
    \/ RingReadAllUpdate

\* ---------------------------------------- DataBuffer and GraphRingBuffer.read
NotRead == -2
NoneData == -1

\* a read that leaves the event set
event_clear_skipped(event) == event

\* event.clear()
event_clear(event) == FALSE

\* read(event, block=False) when it runs alone: `if event.is_set(): event.clear();
\* return self.data else: return None`
read_nonblocking(event, data) == IF event THEN data ELSE NoneData

\* __init__ and get_read_lock(): the Event is created set
DataInit ==
    /\ buf_class \in {"DataBuffer", "GraphRingBuffer"}
    /\ buf_data = 0
    /\ buf_event = TRUE
    /\ buf_write_pc = "idle"
    /\ buf_read_pc = "idle"
    /\ buf_returned = NotRead
    /\ buf_written = 0
    /\ buf_unread = 0
    /\ buf_read_after = 0
    /\ buf_overlap = FALSE

DataParked == DataInit /\ buf_class = "DataBuffer"

\* write: `self.data = new_data` (`self.head_data = data`)
BufWriteStore ==
    /\ buf_write_pc = "idle"
    /\ buf_written < MaxWritten
    /\ buf_written' = buf_written + 1
    /\ buf_data' = buf_written + 1
    /\ buf_write_pc' = "stored"
    /\ buf_overlap' = (buf_overlap \/ buf_read_pc # "idle")
    /\ UNCHANGED <<buf_class, buf_event, buf_read_pc, buf_returned, buf_unread, buf_read_after>>
    /\ UNCHANGED notData

\* a write that ends without setting the readers' events
BufWriteSetSkipped ==
    /\ buf_write_pc = "stored"
    /\ buf_write_pc' = "idle"
    /\ buf_overlap' = (buf_overlap \/ buf_read_pc # "idle")
    /\ UNCHANGED <<buf_class, buf_data, buf_event, buf_read_pc, buf_returned, buf_written,
                   buf_unread, buf_read_after>>
    /\ UNCHANGED notData

\* write: `for event in self.read_events: event.set()`
BufWriteSet ==
    /\ buf_write_pc = "stored"
    /\ buf_event' = TRUE
    /\ buf_write_pc' = "idle"
    /\ buf_unread' = buf_unread + 1
    /\ buf_overlap' = (buf_overlap \/ buf_read_pc # "idle")
    /\ UNCHANGED <<buf_class, buf_data, buf_read_pc, buf_returned, buf_written, buf_read_after>>
    /\ UNCHANGED notData

\* read(event, block): `event.wait()` returns, or `event.is_set()` is true, or
\* (block=False, event not set) `return None`
BufReadBegin(block) ==
    /\ buf_read_pc = "idle"
    /\ block => buf_event
    /\ buf_read_after' = buf_unread
    /\ buf_unread' = 0
    /\ buf_overlap' = (buf_write_pc # "idle")
    /\ IF buf_event
       THEN buf_read_pc' = "woken" /\ UNCHANGED buf_returned
       ELSE buf_returned' = NoneData /\ UNCHANGED buf_read_pc
    /\ UNCHANGED <<buf_class, buf_data, buf_event, buf_write_pc, buf_written>>
    /\ UNCHANGED notData

\* read: `event.clear()`
BufReadClear ==
    /\ buf_read_pc = "woken"
    /\ buf_event' = event_clear(buf_event)
    /\ buf_read_pc' = "cleared"
    /\ UNCHANGED <<buf_class, buf_data, buf_write_pc, buf_returned, buf_written, buf_unread,
                   buf_read_after, buf_overlap>>
    /\ UNCHANGED notData

\* read: `return self.data` (`return self.head_data`)
BufReadReturn ==
    /\ buf_read_pc = "cleared"
    /\ buf_returned' = buf_data
    /\ buf_read_pc' = "idle"
    /\ UNCHANGED <<buf_class, buf_data, buf_event, buf_write_pc, buf_written, buf_unread,
                   buf_read_after, buf_overlap>>
    /\ UNCHANGED notData

DataNext ==
    \/ BufWriteStore
    \/ BufWriteSet
    \/ \E block \in BOOLEAN : BufReadBegin(block)
    \/ BufReadClear
    \/ BufReadReturn

\* -------------------------------------------------------- DatabaseController
SessionIds == {"s1", "s2"}
Files == {"a.rdb", "b.rdb"}
Ports == <<7000, 7001, 7002>>
PortSet == {Ports[i] : i \in DOMAIN Ports}
NoFile == "None"
NoPort == 0
NoSession == [live |-> FALSE, port |-> NoPort, file |-> NoFile]
LiveSession == [live |-> TRUE, port |-> 5001, file |-> "live.rdb"]
PlaybackSession(port, file) == [live |-> FALSE, port |-> port, file |-> file]

\* new_playback, the loop over self.playback_ports.items() from the i-th port on:
\* the port chosen so far, and whether the loop ended by `break`
RECURSIVE find_port(_, _, _, _)
find_port(ports, file, i, port) ==
    IF i > Len(Ports) THEN [port |-> port, found |-> FALSE]
    ELSE IF ports[Ports[i]].file = NoFile THEN find_port(ports, file, i + 1, Ports[i])
    ELSE IF ports[Ports[i]].file = file THEN [port |-> Ports[i], found |-> TRUE]
    ELSE find_port(ports, file, i + 1, port)

\* DatabaseController.remove(ID) on state c = [sessions, ports, raised, shut];
\* shutdown_ok: PlaybackDatabase.shutdown() returns rather than raises
remove(c, ID, shutdown_ok) ==
    LET db == c.sessions[ID]
        info == c.ports[db.port]
    IN IF db = NoSession THEN c
       ELSE IF db.live THEN c
       ELSE IF info.file # NoFile /\ info.count > 1
       THEN [c EXCEPT !.ports[db.port].count = info.count - 1, !.sessions[ID] = NoSession]
       ELSE IF info.file # NoFile /\ info.count <= 1
       THEN IF shutdown_ok
            THEN [c EXCEPT !.ports[db.port] = [file |-> NoFile, count |-> 0],
                           !.sessions[ID] = NoSession,
                           !.shut = c.shut \cup {db.port}]
            ELSE [c EXCEPT !.raised = TRUE, !.shut = c.shut \cup {db.port}]
       ELSE [c EXCEPT !.sessions[ID] = NoSession]

Controller == [sessions |-> sessions, ports |-> playback_ports, raised |-> FALSE, shut |-> {}]

Returned(op, ID, c) ==
    /\ sessions' = c.sessions
    /\ playback_ports' = c.ports
    /\ ctrl_call' = [op |-> op, id |-> ID, raised |-> c.raised, shut |-> c.shut]
    /\ ctrl_failures' = ctrl_failures + (IF c.raised /\ c.shut # {} THEN 1 ELSE 0)
    /\ ctrl_failures' <= MaxFailures

\* DatabaseController.__init__
CtrlInit ==
    /\ sessions = [id \in SessionIds |-> NoSession]
    /\ playback_ports = [p \in PortSet |-> [file |-> NoFile, count |-> 0]]
    /\ ctrl_call = [op |-> "init", id |-> "s1", raised |-> FALSE, shut |-> {}]
    /\ ctrl_failures = 0

\* DatabaseController.new_live(ID)
NewLive(ID, shutdown_ok) ==
    /\ LET c == remove(Controller, ID, shutdown_ok)
       IN IF c.raised THEN Returned("new_live", ID, c)
          ELSE Returned("new_live", ID, [c EXCEPT !.sessions[ID] = LiveSession])
    /\ UNCHANGED notCtrl

\* DatabaseController.new_playback(file, ID)
NewPlayback(file, ID, shutdown_ok) ==
    /\ LET f == find_port(playback_ports, file, 1, NoPort)
       IN IF ~f.found /\ f.port = NoPort
          THEN Returned("new_playback", ID, [Controller EXCEPT !.raised = TRUE])
          ELSE LET counted == [Controller EXCEPT
                                 !.ports[f.port] = [file |-> file,
                                                    count |-> playback_ports[f.port].count + 1]]
                   c == remove(counted, ID, shutdown_ok)
               IN IF c.raised THEN Returned("new_playback", ID, c)
                  ELSE Returned("new_playback", ID,
                                [c EXCEPT !.sessions[ID] = PlaybackSession(f.port, file)])
    /\ UNCHANGED notCtrl

\* DatabaseController.remove(ID), called from outside
Remove(ID, shutdown_ok) ==
    /\ Returned("remove", ID, remove(Controller, ID, shutdown_ok))
    /\ UNCHANGED notCtrl

CtrlNext ==
    \/ \E ID \in SessionIds, ok \in BOOLEAN : NewLive(ID, ok)
    \/ \E file \in Files, ID \in SessionIds, ok \in BOOLEAN : NewPlayback(file, ID, ok)
    \/ \E ID \in SessionIds, ok \in BOOLEAN : Remove(ID, ok)

\* ------------------------------------------------------------ LiveDatabase.save
\* a file name: its text before a final ".rdb", and whether it ends with ".rdb"
Stems == {"x", "y"}
FileName(stem, rdb) == [stem |-> stem, at |-> NoneInt, rdb |-> rdb]
NoName == FileName("", FALSE)
RequestedNames == {NoName} \cup {FileName(s, r) : s \in Stems, r \in BOOLEAN}

\* get_time_filename(): strftime("%Y-%m-%d_%H:%M:%S.rdb"), one name per second
get_time_filename(seconds) == [stem |-> "time", at |-> seconds, rdb |-> TRUE]

\* save: `if not filename or path.isfile(save_path/filename): filename =
\* get_time_filename()`, then `if not filename.endswith('.rdb'): filename += '.rdb'`
save_name(filename, dir, seconds) ==
    LET chosen == IF filename = NoName \/ filename \in dir
                  THEN get_time_filename(seconds) ELSE filename
    IN IF chosen.rdb THEN chosen ELSE [chosen EXCEPT !.rdb = TRUE]

NoSave == [n |-> 0, name |-> NoName, raised |-> FALSE, copied |-> FALSE,
           overwrote |-> FALSE, flushed |-> FALSE]

\* LiveDatabase.__init__ on a backend that holds data, an empty save directory
SaveInit ==
    /\ save_dir = {}
    /\ live_dump \in BOOLEAN
    /\ live_entries = 1
    /\ wall_seconds = 0
    /\ save_call = NoSave

SaveParked == SaveInit /\ live_dump = FALSE

\* a second passes
SecondPasses ==
    /\ wall_seconds < MaxSeconds
    /\ wall_seconds' = wall_seconds + 1
    /\ UNCHANGED <<save_dir, live_dump, live_entries, save_call>>
    /\ UNCHANGED notSave

\* a streamer writes to the live backend
LiveWrite ==
    /\ live_entries < MaxLive
    /\ live_entries' = live_entries + 1
    /\ UNCHANGED <<save_dir, live_dump, wall_seconds, save_call>>
    /\ UNCHANGED notSave

\* LiveDatabase.save(filename). dumped: redis wrote its dump file; cp_ok: the
\* command `cp` succeeded (a failing cp gives a positive status, which the test
\* `stat < 0` lets through)
Save(filename, dumped, cp_ok) ==
    /\ save_call.n < MaxSaves
    /\ live_dump' = (live_dump \/ dumped)
    /\ LET name == save_name(filename, save_dir, wall_seconds)
           call == [NoSave EXCEPT !.n = save_call.n + 1, !.name = name]
       IN IF ~live_dump'
          THEN /\ save_call' = [call EXCEPT !.raised = TRUE]
               /\ UNCHANGED <<save_dir, live_entries>>
          ELSE /\ save_dir' = IF cp_ok THEN save_dir \cup {name} ELSE save_dir
               /\ IF name \notin save_dir'
                  THEN /\ save_call' = [call EXCEPT !.raised = TRUE]
                       /\ UNCHANGED live_entries
                  ELSE /\ save_call' = [call EXCEPT !.copied = cp_ok,
                                                    !.overwrote = (cp_ok /\ name \in save_dir),
                                                    !.flushed = TRUE]
                       /\ live_entries' = 0
    /\ UNCHANGED wall_seconds
    /\ UNCHANGED notSave

SaveNext ==
    \/ SecondPasses
    \/ LiveWrite
    \/ \E filename \in RequestedNames, dumped \in BOOLEAN, cp_ok \in BOOLEAN :
         Save(filename, dumped, cp_ok)

\* ------------------------------------------------- Streamer.START and STOP
RequestThreads == 1..NumThreads
StreamerMethods == {"START", "STOP"}

\* Streamer.__init__: `self.streaming = False; self.time = 0`
StreamerInit ==
    /\ streaming = FALSE
    /\ streamer_time = 0
    /\ streamer_clock = 1
    /\ request_pc = [t \in RequestThreads |-> "none"]
    /\ requests_handled = 0
    /\ recorded = 0

\* the wall clock moves on
StreamerTick ==
    /\ streamer_clock < MaxClock
    /\ streamer_clock' = streamer_clock + 1
    /\ UNCHANGED <<streaming, streamer_time, request_pc, requests_handled, recorded>>
    /\ UNCHANGED notStreamer

\* Node.HANDLE(request, threaded=True): `Thread(target=self._execute,
\* args=(request,), ...).start()`, one new thread for each request
StreamerHANDLE(t, method) ==
    /\ request_pc[t] \in {"none", "done"}
    /\ requests_handled < MaxHandled
    /\ requests_handled' = requests_handled + 1
    /\ request_pc' = [request_pc EXCEPT ![t] = method]
    /\ UNCHANGED <<streaming, streamer_time, streamer_clock, recorded>>
    /\ UNCHANGED notStreamer

\* START: `if self.streaming: self.log(...); return`
STARTCheck(t) ==
    /\ request_pc[t] = "START"
    /\ request_pc' = [request_pc EXCEPT ![t] = IF streaming THEN "done" ELSE "set"]
    /\ UNCHANGED <<streaming, streamer_time, streamer_clock, requests_handled, recorded>>
    /\ UNCHANGED notStreamer

\* START: `self.streaming = True`
STARTSet(t) ==
    /\ request_pc[t] = "set"
    /\ streaming' = TRUE
    /\ recorded' = IF streaming THEN recorded ELSE 0
    /\ request_pc' = [request_pc EXCEPT ![t] = "record"]
    /\ UNCHANGED <<streamer_time, streamer_clock, requests_handled>>
    /\ UNCHANGED notStreamer

\* START: `self.time = time.time()`
STARTRecord(t) ==
    /\ request_pc[t] = "record"
    /\ streamer_time' = streamer_clock
    /\ recorded' = IF recorded < 2 THEN recorded + 1 ELSE 2
    /\ request_pc' = [request_pc EXCEPT ![t] = "done"]
    /\ UNCHANGED <<streaming, streamer_clock, requests_handled>>
    /\ UNCHANGED notStreamer

\* STOP: `self.streaming = False`
STOP(t) ==
    /\ request_pc[t] = "STOP"
    /\ streaming' = FALSE
    /\ request_pc' = [request_pc EXCEPT ![t] = "done"]
    /\ UNCHANGED <<streamer_time, streamer_clock, requests_handled, recorded>>
    /\ UNCHANGED notStreamer

StreamerNext ==
    \/ StreamerTick
    \/ \E t \in RequestThreads, method \in StreamerMethods : StreamerHANDLE(t, method)
    \/ \E t \in RequestThreads : STARTCheck(t)
    \/ \E t \in RequestThreads : STARTSet(t)
    \/ \E t \in RequestThreads : STARTRecord(t)
    \/ \E t \in RequestThreads : STOP(t)

\* ----------------------------------------- HostNode.cleanup and Node.cleanup
\* the states a SocketHandler of the index can be in when cleanup() begins
SocketKinds == {"running", "halted", "shut_down", "never_run"}

\* a handler in one of these states: its flags and its _exit_trigger thread.
\* running: run() was called and the trigger is at, or on its way to, wait();
\* halted: halt() was called, the trigger woke, found close unset and ended;
\* shut_down: shutdown() was called and the woken trigger has yet to run;
\* never_run: add_socket without run(), no trigger thread
SocketIn(kind, started) ==
    [exit    |-> kind \in {"halted", "shut_down"},
     close   |-> kind = "shut_down",
     trigger |-> CASE kind = "running"   -> (IF started THEN "started" ELSE "waiting")
                   [] kind = "halted"    -> "done"
                   [] kind = "shut_down" -> "woken"
                   [] OTHER              -> "none"]

\* list(self.pipes.values()) in insertion order
RECURSIVE pipes_values(_)
pipes_values(index) ==
    IF index = {} THEN <<>>
    ELSE LET w == CHOOSE x \in index : \A y \in index : x <= y
         IN <<w>> \o pipes_values(index \ {w})

\* list(self.sockets.values()) in insertion order
host_sockets_values(index) ==
    (IF "s1" \in index THEN <<"s1">> ELSE <<>>) \o (IF "s2" \in index THEN <<"s2">> ELSE <<>>)

CleanupInit ==
    /\ sock_kind \in [SockIds -> SocketKinds]
    /\ sock_index = SockIds
    /\ \E started \in [SockIds -> BOOLEAN] :
         /\ \A s \in SockIds : started[s] => sock_kind[s] = "running"
         /\ sock_exit = [s \in SockIds |-> SocketIn(sock_kind[s], started[s]).exit]
         /\ sock_close = [s \in SockIds |-> SocketIn(sock_kind[s], started[s]).close]
         /\ sock_trigger = [s \in SockIds |-> SocketIn(sock_kind[s], started[s]).trigger]
    /\ sock_cleaned = [s \in SockIds |-> FALSE]
    /\ cleanup_pc = "idle"
    /\ cleanup_list = <<>>
    /\ cleanup_todo = <<>>
    /\ cleanup_sock = None
    /\ pipe_todo = <<>>
    /\ pipe_cur = 0
    /\ shutdown_sent = {}
    /\ process_alive = [w \in Workers |-> TRUE]
    /\ terminated = {}

CleanupParked ==
    /\ CleanupInit
    /\ sock_kind = [s \in SockIds |-> "never_run"]

\* a socket's _exit_trigger reaches exit_condition.wait()
SockTriggerWait(s) ==
    /\ sock_trigger[s] = "started"
    /\ sock_trigger' = [sock_trigger EXCEPT ![s] = enters_wait(sock_exit[s])]
    /\ UNCHANGED <<sock_kind, sock_index, sock_exit, sock_close, sock_cleaned, cleanup_pc,
                   cleanup_list, cleanup_todo, cleanup_sock, pipe_todo, pipe_cur,
                   shutdown_sent, process_alive, terminated>>
    /\ UNCHANGED notCleanup

\* a socket's _exit_trigger after wait(): `finally: if self.close:
\* self.cleanup()`; SocketHandler.cleanup closes the socket and calls
\* node.remove_socket(self.id)
SockTriggerFinally(s) ==
    /\ sock_trigger[s] = "woken"
    /\ IF sock_close[s]
       THEN /\ sock_cleaned' = [sock_cleaned EXCEPT ![s] = TRUE]
            /\ sock_index' = remove_socket(sock_index, s, sock_exit[s]).sockets
       ELSE UNCHANGED <<sock_cleaned, sock_index>>
    /\ sock_trigger' = [sock_trigger EXCEPT ![s] = "notify_done"]
    /\ UNCHANGED <<sock_kind, sock_exit, sock_close, cleanup_pc, cleanup_list, cleanup_todo,
                   cleanup_sock, pipe_todo, pipe_cur, shutdown_sent, process_alive,
                   terminated>>
    /\ UNCHANGED notCleanup

\* a socket's _exit_trigger, last statement: `with self.shutdown_condition:
\* self.shutdown_condition.notify_all()` wakes a shutdown(block=True) that is
\* inside wait() on this socket
SockTriggerDone(s) ==
    /\ sock_trigger[s] = "notify_done"
    /\ sock_trigger' = [sock_trigger EXCEPT ![s] = "done"]
    /\ cleanup_pc' = IF cleanup_pc = "block_wait" /\ cleanup_sock = s
                     THEN "next" ELSE cleanup_pc
    /\ UNCHANGED <<sock_kind, sock_index, sock_exit, sock_close, sock_cleaned, cleanup_list,
                   cleanup_todo, cleanup_sock, pipe_todo, pipe_cur, shutdown_sent,
                   process_alive, terminated>>
    /\ UNCHANGED notCleanup

\* HostNode.cleanup -> Node.cleanup: `for sock in list(self.sockets.values())`
HostCleanup ==
    /\ cleanup_pc = "idle"
    /\ cleanup_list' = host_sockets_values(sock_index)
    /\ cleanup_todo' = host_sockets_values(sock_index)
    /\ cleanup_pc' = "next"
    /\ UNCHANGED <<sock_kind, sock_index, sock_exit, sock_close, sock_trigger, sock_cleaned,
                   cleanup_sock, pipe_todo, pipe_cur, shutdown_sent, process_alive,
                   terminated>>
    /\ UNCHANGED notCleanup

\* Node.cleanup: `sock.shutdown(block=True)` up to halt()'s `self.exit = True`
\* (`if self.close and self.exit: return`); after the last socket
\* HostNode.cleanup takes list(self.pipes.values())
CleanupSocket ==
    /\ cleanup_pc = "next"
    /\ IF cleanup_todo = <<>>
       THEN /\ cleanup_pc' = "pipes"
            /\ pipe_todo' = pipes_values(Workers)
            /\ UNCHANGED <<cleanup_todo, cleanup_sock, sock_exit>>
       ELSE /\ cleanup_todo' = Tail(cleanup_todo)
            /\ UNCHANGED pipe_todo
            /\ IF already_shut_down(sock_close[Head(cleanup_todo)], sock_exit[Head(cleanup_todo)])
               THEN UNCHANGED <<cleanup_pc, cleanup_sock, sock_exit>>
               ELSE /\ cleanup_sock' = Head(cleanup_todo)
                    /\ sock_exit' = [sock_exit EXCEPT ![Head(cleanup_todo)] = halt(@)]
                    /\ cleanup_pc' = "block_notify"
    /\ UNCHANGED <<sock_kind, sock_index, sock_close, sock_trigger, sock_cleaned, cleanup_list,
                   pipe_cur, shutdown_sent, process_alive, terminated>>
    /\ UNCHANGED notCleanup

\* sock.shutdown(block=True): halt()'s exit_condition.notify_all()
CleanupNotify ==
    /\ cleanup_pc = "block_notify"
    /\ sock_trigger' = [sock_trigger EXCEPT ![cleanup_sock] = notify_all(@)]
    /\ cleanup_pc' = "block_close"
    /\ UNCHANGED <<sock_kind, sock_index, sock_exit, sock_close, sock_cleaned, cleanup_list,
                   cleanup_todo, cleanup_sock, pipe_todo, pipe_cur, shutdown_sent,
                   process_alive, terminated>>
    /\ UNCHANGED notCleanup

\* sock.shutdown(block=True): `self.close = True`
CleanupSetClose ==
    /\ cleanup_pc = "block_close"
    /\ sock_close' = [sock_close EXCEPT ![cleanup_sock] = TRUE]
    /\ cleanup_pc' = "block_enter"
    /\ UNCHANGED <<sock_kind, sock_index, sock_exit, sock_trigger, sock_cleaned, cleanup_list,
                   cleanup_todo, cleanup_sock, pipe_todo, pipe_cur, shutdown_sent,
                   process_alive, terminated>>
    /\ UNCHANGED notCleanup

\* sock.shutdown(block=True): `with self.shutdown_condition:
\* self.shutdown_condition.wait()`
CleanupWait ==
    /\ cleanup_pc = "block_enter"
    /\ cleanup_pc' = "block_wait"
    /\ UNCHANGED <<sock_kind, sock_index, sock_exit, sock_close, sock_trigger, sock_cleaned,
                   cleanup_list, cleanup_todo, cleanup_sock, pipe_todo, pipe_cur,
                   shutdown_sent, process_alive, terminated>>
    /\ UNCHANGED notCleanup

\* HostNode.cleanup: `for pipe in list(self.pipes.values()):
\* pipe.send('SHUTDOWN')`
CleanupSend ==
    /\ cleanup_pc = "pipes"
    /\ IF pipe_todo = <<>>
       THEN /\ cleanup_pc' = "done"
            /\ UNCHANGED <<pipe_todo, pipe_cur, shutdown_sent>>
       ELSE /\ pipe_cur' = Head(pipe_todo)
            /\ pipe_todo' = Tail(pipe_todo)
            /\ shutdown_sent' = shutdown_sent \cup {Head(pipe_todo)}
            /\ cleanup_pc' = "terminate"
    /\ UNCHANGED <<sock_kind, sock_index, sock_exit, sock_close, sock_trigger, sock_cleaned,
                   cleanup_list, cleanup_todo, cleanup_sock, process_alive, terminated>>
    /\ UNCHANGED notCleanup

\* PipeHandler.terminate: `if not self.process.is_alive(): return`, else
\* `self.process.join(0.1); time.sleep(0.1)`
TerminateCheck ==
    /\ cleanup_pc = "terminate"
    /\ cleanup_pc' = IF process_alive[pipe_cur] THEN "grace" ELSE "pipes"
    /\ UNCHANGED <<sock_kind, sock_index, sock_exit, sock_close, sock_trigger, sock_cleaned,
                   cleanup_list, cleanup_todo, cleanup_sock, pipe_todo, pipe_cur,
                   shutdown_sent, process_alive, terminated>>
    /\ UNCHANGED notCleanup

\* PipeHandler.terminate after the window: `if self.process.is_alive():
\* self.process.terminate()`
TerminateProcess ==
    /\ cleanup_pc = "grace"
    /\ terminated' = IF process_alive[pipe_cur] THEN terminated \cup {pipe_cur} ELSE terminated
    /\ process_alive' = [process_alive EXCEPT ![pipe_cur] = FALSE]
    /\ cleanup_pc' = "pipes"
    /\ UNCHANGED <<sock_kind, sock_index, sock_exit, sock_close, sock_trigger, sock_cleaned,
                   cleanup_list, cleanup_todo, cleanup_sock, pipe_todo, pipe_cur,
                   shutdown_sent>>
    /\ UNCHANGED notCleanup

\* a Worker process ends (on the SHUTDOWN it received, or by itself)
ProcessEnds(w) ==
    /\ process_alive[w]
    /\ process_alive' = [process_alive EXCEPT ![w] = FALSE]
    /\ UNCHANGED <<sock_kind, sock_index, sock_exit, sock_close, sock_trigger, sock_cleaned,
                   cleanup_pc, cleanup_list, cleanup_todo, cleanup_sock, pipe_todo, pipe_cur,
                   shutdown_sent, terminated>>
    /\ UNCHANGED notCleanup

CleanupNext ==
    \/ \E s \in SockIds : SockTriggerWait(s)
    \/ \E s \in SockIds : SockTriggerFinally(s)
    \/ \E s \in SockIds : SockTriggerDone(s)
    \/ HostCleanup
    \/ CleanupSocket
    \/ CleanupNotify
    \/ CleanupSetClose
    \/ CleanupWait
    \/ CleanupSend
    \/ TerminateCheck
    \/ TerminateProcess
    \/ \E w \in Workers : ProcessEnds(w)

\* every started thread keeps running; only the end of a Worker process is
\* not forced
CleanupFair ==
    /\ \A s \in SockIds :
        /\ WF_cleanupVars(SockTriggerWait(s))
        /\ WF_cleanupVars(SockTriggerFinally(s))
        /\ WF_cleanupVars(SockTriggerDone(s))
    /\ WF_cleanupVars(HostCleanup)
    /\ WF_cleanupVars(CleanupSocket)
    /\ WF_cleanupVars(CleanupNotify)
    /\ WF_cleanupVars(CleanupSetClose)
    /\ WF_cleanupVars(CleanupWait)
    /\ WF_cleanupVars(CleanupSend)
    /\ WF_cleanupVars(TerminateCheck)
    /\ WF_cleanupVars(TerminateProcess)

\* ---------------------------------- SocketPackage and Node.receive_socket
\* what a package can be built from: a SocketHandler or a raw socket, and a
\* request or no request
PackedSockets == {HostHandler, [type |-> "socket", id |-> None]}
PackedRequests == {NoRequest} \cup {RequestOf(1, m) : m \in Methods}

PkgInit ==
    /\ package = NoPackage
    /\ receive_pc = "idle"
    /\ received = 0
    /\ new_handler = NoHandler
    /\ new_request = NoRequest
    /\ node_sockets = {}
    /\ node_running = {}
    /\ node_handled = <<>>

\* SocketPackage(sock, request) is built, sent through the pipe and handed to
\* Node.receive_socket by _run_pipe
PackageReceived(sock, request) ==
    /\ receive_pc = "idle"
    /\ received < MaxPackages
    /\ received' = received + 1
    /\ package' = SocketPackage(sock, request)
    /\ receive_pc' = "unpack"
    /\ UNCHANGED <<new_handler, new_request, node_sockets, node_running, node_handled>>
    /\ UNCHANGED notPkg

\* Node.receive_socket: `handler, request = package.unpack(self)`; an exception
\* of unpack leaves receive_socket and ends the pipe thread
PackageUnpack ==
    /\ receive_pc = "unpack"
    /\ IF unpack(package).raised
       THEN /\ receive_pc' = "raised"
            /\ UNCHANGED <<new_handler, new_request>>
       ELSE /\ new_handler' = unpack(package).handler
            /\ new_request' = unpack(package).req
            /\ receive_pc' = "handle"
    /\ UNCHANGED <<package, received, node_sockets, node_running, node_handled>>
    /\ UNCHANGED notPkg

\* Node.receive_socket: `if request:` name the handler and self.HANDLE(request)
PackageHandle ==
    /\ receive_pc = "handle"
    /\ IF new_request # NoRequest
       THEN /\ new_handler' = [new_handler EXCEPT !.name = handler_name(new_request)]
            /\ node_handled' = HANDLE(node_handled, new_request)
       ELSE UNCHANGED <<new_handler, node_handled>>
    /\ receive_pc' = "add"
    /\ UNCHANGED <<package, received, new_request, node_sockets, node_running>>
    /\ UNCHANGED notPkg

\* Node.receive_socket: self.add_socket(handler)
PackageAdd ==
    /\ receive_pc = "add"
    /\ node_sockets' = node_sockets \cup {new_handler.id}
    /\ receive_pc' = "run"
    /\ UNCHANGED <<package, received, new_handler, new_request, node_running, node_handled>>
    /\ UNCHANGED notPkg

\* Node.receive_socket: handler.run()
PackageRun ==
    /\ receive_pc = "run"
    /\ node_running' = node_running \cup {new_handler.id}
    /\ receive_pc' = "idle"
    /\ UNCHANGED <<package, received, new_handler, new_request, node_sockets, node_handled>>
    /\ UNCHANGED notPkg

PkgNext ==
    \/ \E sock \in PackedSockets, request \in PackedRequests : PackageReceived(sock, request)
    \/ PackageUnpack
    \/ PackageHandle
    \/ PackageAdd
    \/ PackageRun

\* ------------------------------------------ WorkerNode.run and its two threads
\* the handlers of a Worker: the source socket and the transferred sockets
StartHandlers == 0..MaxTransfers
SourceHandler == 0

\* WorkerNode.run(pipe) has started the RUN and the PIPE thread; the index
\* holds the source socket (set_source) or nothing yet
StartInit ==
    /\ worker_index \in {<<>>, <<SourceHandler>>}
    /\ run_pc = "list"
    /\ run_todo = <<>>
    /\ pipe_pc = "receive"
    /\ pipe_handler = SourceHandler
    /\ pipe_received = 0
    /\ run_calls = [h \in StartHandlers |-> 0]

StartParked == StartInit /\ worker_index = <<>>

\* WorkerNode._run: `for handler in list(self.sockets.values())`
RunList ==
    /\ run_pc = "list"
    /\ run_todo' = worker_index
    /\ run_pc' = "loop"
    /\ UNCHANGED <<worker_index, pipe_pc, pipe_handler, pipe_received, run_calls>>
    /\ UNCHANGED notStart

\* WorkerNode._run: handler.run() for the next handler of the list;
\* SocketHandler.run starts a read-loop thread and an exit trigger
RunSocket ==
    /\ run_pc = "loop"
    /\ IF run_todo = <<>>
       THEN /\ run_pc' = "done"
            /\ UNCHANGED <<run_todo, run_calls>>
       ELSE /\ run_calls' = [run_calls EXCEPT ![Head(run_todo)] = @ + 1]
            /\ run_todo' = Tail(run_todo)
            /\ UNCHANGED run_pc
    /\ UNCHANGED <<worker_index, pipe_pc, pipe_handler, pipe_received>>
    /\ UNCHANGED notStart

\* WorkerNode._run_pipe: a SocketPackage arrives; Node.receive_socket unpacks
\* it into a new handler (and dispatches its request)
PipeSocket ==
    /\ pipe_pc = "receive"
    /\ pipe_received < MaxTransfers
    /\ pipe_received' = pipe_received + 1
    /\ pipe_handler' = pipe_received + 1
    /\ pipe_pc' = "add"
    /\ UNCHANGED <<worker_index, run_pc, run_todo, run_calls>>
    /\ UNCHANGED notStart

\* Node.receive_socket: self.add_socket(handler)
PipeAdd ==
    /\ pipe_pc = "add"
    /\ worker_index' = Append(worker_index, pipe_handler)
    /\ pipe_pc' = "run"
    /\ UNCHANGED <<run_pc, run_todo, pipe_handler, pipe_received, run_calls>>
    /\ UNCHANGED notStart

\* Node.receive_socket: handler.run()
PipeRun ==
    /\ pipe_pc = "run"
    /\ run_calls' = [run_calls EXCEPT ![pipe_handler] = @ + 1]
    /\ pipe_pc' = "receive"
    /\ UNCHANGED <<worker_index, run_pc, run_todo, pipe_handler, pipe_received>>
    /\ UNCHANGED notStart

StartNext ==
    \/ RunList
    \/ RunSocket
    \/ PipeSocket
    \/ PipeAdd
    \/ PipeRun

vars == <<xferVars, nodeVars, readVars, writeVars, clockVars, poolVars, serveVars, lifeVars, workVars, codecVars, parseVars, ringVars, dataVars, ctrlVars, saveVars, streamerVars, cleanupVars, pkgVars, startVars>>

InitXfer ==
    /\ XferInit
    /\ NodeInit
    /\ ReadInit
    /\ WriteInit
    /\ ClockInit
    /\ PoolParked
    /\ ServeInit
    /\ LifeInit
    /\ WorkInit
    /\ CodecParked
    /\ ParseParked
    /\ RingParked
    /\ DataParked
    /\ CtrlInit
    /\ SaveParked
    /\ StreamerInit
    /\ CleanupParked
    /\ PkgInit
    /\ StartParked

InitRead ==
    /\ ReadInit
    /\ XferInit
    /\ NodeInit
    /\ WriteInit
    /\ ClockInit
    /\ PoolParked
    /\ ServeInit
    /\ LifeInit
    /\ WorkInit
    /\ CodecParked
    /\ ParseParked
    /\ RingParked
    /\ DataParked
    /\ CtrlInit
    /\ SaveParked
    /\ StreamerInit
    /\ CleanupParked
    /\ PkgInit
    /\ StartParked

InitWrite ==
    /\ WriteInit
    /\ XferInit
    /\ NodeInit
    /\ ReadInit
    /\ ClockInit
    /\ PoolParked
    /\ ServeInit
    /\ LifeInit
    /\ WorkInit
    /\ CodecParked
    /\ ParseParked
    /\ RingParked
    /\ DataParked
    /\ CtrlInit
    /\ SaveParked
    /\ StreamerInit
    /\ CleanupParked
    /\ PkgInit
    /\ StartParked

InitClock ==
    /\ ClockInit
    /\ XferInit
    /\ NodeInit
    /\ ReadInit
    /\ WriteInit
    /\ PoolParked
    /\ ServeInit
    /\ LifeInit
    /\ WorkInit
    /\ CodecParked
    /\ ParseParked
    /\ RingParked
    /\ DataParked
    /\ CtrlInit
    /\ SaveParked
    /\ StreamerInit
    /\ CleanupParked
    /\ PkgInit
    /\ StartParked

InitPool ==
    /\ PoolInit
    /\ NodeInit
    /\ XferInit
    /\ ReadInit
    /\ WriteInit
    /\ ClockInit
    /\ ServeInit
    /\ LifeInit
    /\ WorkInit
    /\ CodecParked
    /\ ParseParked
    /\ RingParked
    /\ DataParked
    /\ CtrlInit
    /\ SaveParked
    /\ StreamerInit
    /\ CleanupParked
    /\ PkgInit
    /\ StartParked

InitServe ==
    /\ ServeInit
    /\ XferInit
    /\ NodeInit
    /\ ReadInit
    /\ WriteInit
    /\ ClockInit
    /\ PoolParked
    /\ LifeInit
    /\ WorkInit
    /\ CodecParked
    /\ ParseParked
    /\ RingParked
    /\ DataParked
    /\ CtrlInit
    /\ SaveParked
    /\ StreamerInit
    /\ CleanupParked
    /\ PkgInit
    /\ StartParked

SpecServe == InitServe /\ [][ServeNext]_vars

InitLife ==
    /\ LifeInit
    /\ XferInit
    /\ NodeInit
    /\ ReadInit
    /\ WriteInit
    /\ ClockInit
    /\ PoolParked
    /\ ServeInit
    /\ WorkInit
    /\ CodecParked
    /\ ParseParked
    /\ RingParked
    /\ DataParked
    /\ CtrlInit
    /\ SaveParked
    /\ StreamerInit
    /\ CleanupParked
    /\ PkgInit
    /\ StartParked

SpecLife == InitLife /\ [][LifeNext]_vars /\ LifeFair

InitWork ==
    /\ WorkInit
    /\ XferInit
    /\ NodeInit
    /\ ReadInit
    /\ WriteInit
    /\ ClockInit
    /\ PoolParked
    /\ ServeInit
    /\ LifeInit
    /\ CodecParked
    /\ ParseParked
    /\ RingParked
    /\ DataParked
    /\ CtrlInit
    /\ SaveParked
    /\ StreamerInit
    /\ CleanupParked
    /\ PkgInit
    /\ StartParked

SpecWork == InitWork /\ [][WorkNext]_vars /\ WorkFair

InitCodec ==
    /\ CodecInit
    /\ XferInit
    /\ NodeInit
    /\ ReadInit
    /\ WriteInit
    /\ ClockInit
    /\ PoolParked
    /\ ServeInit
    /\ LifeInit
    /\ WorkInit
    /\ ParseParked
    /\ RingParked
    /\ DataParked
    /\ CtrlInit
    /\ SaveParked
    /\ StreamerInit
    /\ CleanupParked
    /\ PkgInit
    /\ StartParked

SpecCodec == InitCodec /\ [][CodecNext]_vars

InitParse ==
    /\ ParseInit
    /\ XferInit
    /\ NodeInit
    /\ ReadInit
    /\ WriteInit
    /\ ClockInit
    /\ PoolParked
    /\ ServeInit
    /\ LifeInit
    /\ WorkInit
    /\ CodecParked
    /\ RingParked
    /\ DataParked
    /\ CtrlInit
    /\ SaveParked
    /\ StreamerInit
    /\ CleanupParked
    /\ PkgInit
    /\ StartParked

SpecParse == InitParse /\ [][ParseNext]_vars

InitRing ==
    /\ RingInit
    /\ XferInit
    /\ NodeInit
    /\ ReadInit
    /\ WriteInit
    /\ ClockInit
    /\ PoolParked
    /\ ServeInit
    /\ LifeInit
    /\ WorkInit
    /\ CodecParked
    /\ ParseParked
    /\ DataParked
    /\ CtrlInit
    /\ SaveParked
    /\ StreamerInit
    /\ CleanupParked
    /\ PkgInit
    /\ StartParked

SpecRing == InitRing /\ [][RingNext]_vars

InitData ==
    /\ DataInit
    /\ XferInit
    /\ NodeInit
    /\ ReadInit
    /\ WriteInit
    /\ ClockInit
    /\ PoolParked
    /\ ServeInit
    /\ LifeInit
    /\ WorkInit
    /\ CodecParked
    /\ ParseParked
    /\ RingParked
    /\ CtrlInit
    /\ SaveParked
    /\ StreamerInit
    /\ CleanupParked
    /\ PkgInit
    /\ StartParked

SpecData == InitData /\ [][DataNext]_vars

InitCtrl ==
    /\ CtrlInit
    /\ XferInit
    /\ NodeInit
    /\ ReadInit
    /\ WriteInit
    /\ ClockInit
    /\ PoolParked
    /\ ServeInit
    /\ LifeInit
    /\ WorkInit
    /\ CodecParked
    /\ ParseParked
    /\ RingParked
    /\ DataParked
    /\ SaveParked
    /\ StreamerInit
    /\ CleanupParked
    /\ PkgInit
    /\ StartParked

SpecCtrl == InitCtrl /\ [][CtrlNext]_vars

InitSave ==
    /\ SaveInit
    /\ XferInit
    /\ NodeInit
    /\ ReadInit
    /\ WriteInit
    /\ ClockInit
    /\ PoolParked
    /\ ServeInit
    /\ LifeInit
    /\ WorkInit
    /\ CodecParked
    /\ ParseParked
    /\ RingParked
    /\ DataParked
    /\ CtrlInit
    /\ StreamerInit
    /\ CleanupParked
    /\ PkgInit
    /\ StartParked

SpecSave == InitSave /\ [][SaveNext]_vars

InitStreamer ==
    /\ StreamerInit
    /\ XferInit
    /\ NodeInit
    /\ ReadInit
    /\ WriteInit
    /\ ClockInit
    /\ PoolParked
    /\ ServeInit
    /\ LifeInit
    /\ WorkInit
    /\ CodecParked
    /\ ParseParked
    /\ RingParked
    /\ DataParked
    /\ CtrlInit
    /\ SaveParked
    /\ CleanupParked
    /\ PkgInit
    /\ StartParked

SpecStreamer == InitStreamer /\ [][StreamerNext]_vars

InitCleanup ==
    /\ CleanupInit
    /\ XferInit
    /\ NodeInit
    /\ ReadInit
    /\ WriteInit
    /\ ClockInit
    /\ PoolParked
    /\ ServeInit
    /\ LifeInit
    /\ WorkInit
    /\ CodecParked
    /\ ParseParked
    /\ RingParked
    /\ DataParked
    /\ CtrlInit
    /\ SaveParked
    /\ StreamerInit
    /\ PkgInit
    /\ StartParked

SpecCleanup == InitCleanup /\ [][CleanupNext]_vars /\ CleanupFair

InitPkg ==
    /\ PkgInit
    /\ XferInit
    /\ NodeInit
    /\ ReadInit
    /\ WriteInit
    /\ ClockInit
    /\ PoolParked
    /\ ServeInit
    /\ LifeInit
    /\ WorkInit
    /\ CodecParked
    /\ ParseParked
    /\ RingParked
    /\ DataParked
    /\ CtrlInit
    /\ SaveParked
    /\ StreamerInit
    /\ CleanupParked
    /\ StartParked

SpecPkg == InitPkg /\ [][PkgNext]_vars

InitStart ==
    /\ StartInit
    /\ XferInit
    /\ NodeInit
    /\ ReadInit
    /\ WriteInit
    /\ ClockInit
    /\ PoolParked
    /\ ServeInit
    /\ LifeInit
    /\ WorkInit
    /\ CodecParked
    /\ ParseParked
    /\ RingParked
    /\ DataParked
    /\ CtrlInit
    /\ SaveParked
    /\ StreamerInit
    /\ CleanupParked
    /\ PkgInit

SpecStart == InitStart /\ [][StartNext]_vars

SpecWrite == InitWrite /\ [][WriteNext]_vars

SpecClock == InitClock /\ [][ClockNext]_vars

SpecPool == InitPool /\ [][PoolNext]_vars

SpecRead == InitRead /\ [][ReadNext]_vars

SpecXfer == InitXfer /\ [][XferNext]_vars

\* ------------------------------------------------------------- claims C1-C3
\* C1: once transfer_socket has halted the Host's handler, the Host's HANDLE is
\* never given another request read from that socket.
C1_HostDispatchesNothingAfterTransfer == hostLate = {}

\* C2: the handler receive_socket builds has the packaged id H, the packaged
\* request R is passed to the Worker's HANDLE exactly once, and the read loop
\* is started only after that.
RCount == Cardinality({i \in DOMAIN workerHandled : workerHandled[i].n = 1})
C2_ReceiveSocketOrder ==
    /\ wh # NoHandler => wh.id = HandlerId
    /\ RCount <= 1
    /\ wrpc \in {"add", "run"} => RCount = 1
    /\ wlpc # "none" =>
          /\ wRunAt = 1
          /\ workerHandled[1] = hostHandled[1]
          /\ RCount = 1
C2_Witness ==
    /\ wlpc = "check"
    /\ wh.id = HandlerId
    /\ Len(workerHandled) = 2
    /\ workerHandled[2].n = 2

\* C3: at no moment do both processes hold a handler for the raw socket that
\* is registered in a socket index or whose read loop can still read.
HostOwns ==
    \/ HandlerId \in hostSockets
    \/ hpc = "parse"
    \/ hpc = "check" /\ run_loop_continues(hExit)
WorkerOwns ==
    \/ wh.id \in workerSockets
    \/ wlpc = "parse"
    \/ wlpc = "check" /\ run_loop_continues(wh.exit)
C3_SingleOwner == ~(HostOwns /\ WorkerOwns)


\* ------------------------------------------------------------- claims C4-C6
PastLock == {"read", "update", "convert", "release"}
\* the call with number k has returned or raised
Finished(k) == k > 0 /\ \A t \in Readers : rcall[t] = k => rpc[t] = "idle"

\* C4: two concurrent reads of one stream are never both past the
\* bookmark-lock check.
C4_OneReaderPastLock ==
    \A t1, t2 \in Readers : t1 # t2 => ~(rpc[t1] \in PastLock /\ rpc[t2] \in PastLock)

\* C5: a call that found the lock free went on to read the stream; only a
\* call that found it held returns without reading.
C5_FreeLockReads ==
    \A t \in Readers : rpc[t] = "idle" /\ rcall[t] > 0 /\ racq[t] => rread[t]

\* C6: no finished call leaves the lock it acquired held.
C6_LockReleased == lockHeld => ~Finished(lockBy)

\* ----------------------------------------------------------------- claim C7
\* C7: the ids produced for non-decreasing time values strictly increase: the
\* same integer millisecond as the previous write gets the previous sequence
\* number plus one, a new millisecond gets sequence number 0.
C7_IdsStrictlyIncreasing ==
    \A i \in 1..(Len(produced) - 1) :
        LET a == produced[i]
            b == produced[i + 1]
        IN /\ IdLess(a, b)
           /\ (b.ms = a.ms => SeqOf(b) = SeqOf(a) + 1)
           /\ (b.ms # a.ms => SeqOf(b) = 0)

\* ------------------------------------------------------------- claims C8, C9
\* C8: while playback stays active, time() never decreases, whatever the wall
\* clock and playback_speed do.
C8_ActiveTimeMonotonic ==
    [][playback_active /\ playback_active' => PlaybackTime' >= PlaybackTime]_vars

\* C9: stop() keeps the playback time it is called at; while paused every step
\* (wall clock, speed, a second stop, the next start) leaves time() unchanged;
\* start() while active changes nothing.
C9_PausePreservesPosition ==
    [][/\ (PlaybackStop => PlaybackTime' = PlaybackTime)
       /\ (~playback_active => PlaybackTime' = PlaybackTime)
       /\ (playback_active /\ PlaybackStart => UNCHANGED clockVars)]_vars
C9_Witness ==
    /\ ~playback_active
    /\ stopWall # NoneInt
    /\ wall > stopWall
    /\ relative_stop_time > 0
    /\ playback_speed # DefaultSpeed

\* ---------------------------------------------------------------- claim C10
\* no reader thread is between receiving a SHUTDOWN and the end of its iteration
PoolQuiet == \A w \in Workers : ppc[w] \notin {"remove", "auto"}

\* C10: with automatic shutdown, once the SHUTDOWN of the last remaining Worker
\* has been handled the pipe index is empty and the Host's exit and close flags
\* are set; a SHUTDOWN handled while other Workers are registered, or with auto
\* disabled, leaves the Host's flags as they were.
C10_AutoShutdown ==
    /\ [](handledShutdown \cap pipes = {})
    /\ [](automatic_shutdown /\ handledShutdown # {} /\ pipes = {} /\ PoolQuiet
            => hostExit /\ hostClose)
    /\ [][\A w \in Workers :
            (PipeReceive(w) \/ RemoveWorker(w) \/ AutoShutdown(w))
            /\ (~automatic_shutdown \/ pipes' # {})
            => UNCHANGED <<hostExit, hostClose>>]_vars
C10_Witness ==
    /\ automatic_shutdown
    /\ handledShutdown = Workers
    /\ pipes = {}
    /\ hostWhy = "auto"
    /\ hostExit /\ hostClose
\* ---------------------------------------------------------------- claim C11
\* C11: a Host pipe reader that got the closed sentinel (receive returned None)
\* has removed that Worker's pipe from the pipe index by the time it ends.
C11_ClosedPipeRemoved == \A w \in Workers : ppc[w] = "closed" => w \notin pipes

\* ---------------------------------------------------------- claims C14, C15
\* C14: a request whose method the Node does not define, or whose method
\* raises, fails for that request only: executing it leaves the Node's exit and
\* close flags as they were (unset).
C14_DispatchFailureIsLocal ==
    [][\A j \in 1..MaxPending :
         (j \in DOMAIN nthreads /\ execute_throws(nthreads[j]) /\ NodeExecute(j))
         => (~hostExit' /\ ~hostClose')]_vars

\* C15: remove_socket(id) for an indexed handler whose exit flag is not set
\* leaves the handler in the index and the Node's exit and close flags unchanged.
C15_RemoveLiveSocketOnlyLogs ==
    [][\A i \in SockIds :
         (i \in nsockets /\ ~nexit[i] /\ NodeRemoveSocket(i))
         => (nsockets' = nsockets /\ UNCHANGED nodeVars)]_vars

\* ---------------------------------------------------------------- claim C13
\* C13: for every object whose exit trigger has been started, a call of
\* shutdown() is eventually followed by one execution of cleanup().
C13_ShutdownLeadsToCleanup ==
    \A o \in Objs : [](shutdowns[o] > 0 => <>(cleanups[o] = 1))

\* ---------------------------------------------------------------- claim C12
\* a step taken by the threads of the other (non-source) socket
OtherSocketStep ==
    \/ HandlerReadFails("other")
    \/ HandlerRunNotify("other")
    \/ HandlerRunSetClose("other")
    \/ HandlerTriggerFinally("other")
    \/ HandlerTriggerRemove("other")
    \/ HandlerTriggerDone("other")

\* C12: once the Worker's source SocketHandler has shut down, the Worker
\* eventually has shut down itself and has sent one SHUTDOWN to the Host; it
\* never sends a second one; the shutdown of the other socket neither sets the
\* Worker's exit flag nor sends SHUTDOWN.
C12_SourceShutdownStopsWorker ==
    /\ [](hexit[source_id] /\ hclose[source_id]
            => <>(wexit /\ wclose /\ sentShutdown = 1))
    /\ [](sentShutdown <= 1)
    /\ [][OtherSocketStep => UNCHANGED <<wexit, sentShutdown>>]_vars

\* ---------------------------------------------------------- claims C16, C17
\* the body of a request: nothing when content is None
BodyOf(r) == IF r.content = NoneStr THEN <<>> ELSE r.content

\* the header mapping with lower-cased keys, as a set of pairs
LowerItems(d) == {<<Lower(d[i][1]), d[i][2]>> : i \in DOMAIN d}

\* C16: parsing the bytes of R.get_data() yields a Request with the same method
\* or code and message, version, path, queries, headers (keys lower-cased) and
\* content, and leaves the stream at the start of the next frame.
C16_RoundTrip ==
    codec_pc = "decoded" =>
        /\ cparsed.status = "ok"
        /\ cparsed.req.method = creq.method
        /\ cparsed.req.code = creq.code
        /\ cparsed.req.message = creq.message
        /\ cparsed.req.version = creq.version
        /\ cparsed.req.path = creq.path
        /\ DictItems(cparsed.req.queries) = DictItems(creq.queries)
        /\ DictItems(cparsed.req.header) = LowerItems(creq.header)
        /\ BodyOf(cparsed.req) = BodyOf(creq)
        /\ cparsed.rest = NextFrame

\* "key: value\r\n" for every header, in order
RECURSIVE HeaderLinesOf(_)
HeaderLinesOf(h) ==
    IF h = <<>> THEN <<>>
    ELSE h[1][1] \o <<":", " ">> \o h[1][2] \o CRLF \o HeaderLinesOf(Tail(h))

\* C17: get_data() emits the start line, one line per header, exactly one blank
\* line and then the body bytes; a non-empty body has content-length = |body|.
C17_FrameLayout ==
    (codec_pc # "new" /\ cdata # NoneStr) =>
        /\ cdata = format_request_line(creq) \o HeaderLinesOf(creq.header) \o CRLF
                     \o BodyOf(creq)
        /\ BodyOf(creq) # <<>> =>
             DictGet(creq.header, content_length) = IntToStr(Len(BodyOf(creq)))

\* ------------------------------------------------- claims about reading frames
\* the handler has given the connection up without handing anything to HANDLE
Rejected == sh_exit /\ sh_close /\ dispatched = <<>>

\* C18: every Request handed to HANDLE that carries a content-length header has
\* content of exactly that many bytes, and when the peer closes before the whole
\* body has arrived nothing is dispatched.
C18_ContentHasDeclaredLength ==
    /\ \A i \in DOMAIN dispatched :
         Truthy(DictGet(dispatched[i].header, content_length)) =>
             /\ dispatched[i].content # NoneStr
             /\ Len(dispatched[i].content) = StrToInt(DictGet(dispatched[i].header, content_length))
    /\ (peer_input.kind = "body" /\ peer_input.n < BodyLen) => dispatched = <<>>

\* C19: a start line longer than 256 bytes or a header line longer than 1024
\* characters, terminated by CRLF or not, is never dispatched, and once the
\* handler has read it the handler is shut down.
C19_OverLongLineRejected ==
    (\/ peer_input.kind = "start_line" /\ peer_input.n > max_len_request_line
     \/ peer_input.kind = "header_line" /\ peer_input.n > max_len) =>
        /\ dispatched = <<>>
        /\ parse_pc \notin {"validate", "content", "handle"}
        /\ parse_pc = "done" => Rejected

\* C20: a frame with at most 32 header lines and the blank line is not rejected
\* and is dispatched once parsed; a frame with more than 32 header lines is
\* never dispatched and is rejected.
C20_HeaderCountLimit ==
    peer_input.kind = "headers" =>
        /\ peer_input.n <= max_num => ~Rejected
        /\ peer_input.n > max_num => dispatched = <<>> /\ (parse_pc = "done" => Rejected)

\* the peer's host or user-agent header has a listed keyword inside (or is one)
Denied == peer_input.kind \in {"host", "user_agent"} /\ peer_input.n > 1

\* C21: a request whose host or user-agent header contains a deny-list
\* substring is never dispatched and its body is never read (the parse never
\* gets past validate); a request with neither match is not blocked.
C21_DeniedBeforeBody ==
    /\ Denied => dispatched = <<>> /\ parse_pc \notin {"content", "handle"}
    /\ (peer_input.kind \in {"host", "user_agent"} /\ ~Denied) => ~Rejected

\* ------------------------------------------------- claims about GraphRingBuffer
\* the points the ring holds, oldest first
RingPoints == SubSeq(sort(ring_data, ring_tail), 1, ring_length)
LastOf(s, n) == SubSeq(s, Len(s) - n + 1, Len(s))
RingMin(a, b) == IF a < b THEN a ELSE b

\* C22: after set_size(k) on a ring holding `length` points, what read_all
\* returns starts with the newest min(k, length) of those points in insertion
\* order and has only zeros after them.
C22_SetSizeKeepsNewest ==
    [][(ring_resizes' = ring_resizes + 1 /\ read_all_pc = "idle") =>
         LET kept == RingMin(ring_size', ring_length)
             returned == sort(ring_data', ring_tail')
         IN /\ Len(returned) >= kept
            /\ SubSeq(returned, 1, kept) = LastOf(RingPoints, kept)
            /\ \A i \in (kept + 1)..Len(returned) : returned[i] = 0]_vars

\* C24: after any interleaving of write and read_all (no set_size), whenever no
\* read_all is under way the ring holds exactly the newest min(points written,
\* size) points in chronological order, and head is where the next point goes.
C24_RingSerialized ==
    (ring_resizes = 0 /\ read_all_pc = "idle") =>
        /\ ring_length = RingMin(Len(ring_written), ring_size)
        /\ RingPoints = LastOf(ring_written, ring_length)
        /\ ring_head = (ring_tail + ring_length) % ring_size

\* ------------------------------------------------- claims about DataBuffer
\* C23: a read that no write overlaps returns the value of the last write made
\* before it, however many writes were made since the previous read, and a
\* non-blocking read made right after it returns None.
C23_ReadReturnsLastWrite ==
    [][(buf_read_pc = "cleared" /\ buf_read_pc' = "idle" /\ ~buf_overlap) =>
         /\ buf_returned' = buf_written
         /\ read_nonblocking(buf_event', buf_data') = NoneData]_vars

C23_Witness ==
    /\ buf_read_pc = "idle"
    /\ buf_read_after >= 2
    /\ ~buf_overlap
    /\ buf_returned = buf_written
    /\ ~buf_event

\* ----------------------------------------------------------------- claim C25
\* the inputs write_data has to refuse: no time column (or no column at all),
\* scalars mixed with sequences, sequences of different lengths
BadInput(data) ==
    \/ "time" \notin DOMAIN data
    \/ \E c, d \in DOMAIN data : data[c] = NoneInt /\ data[d] # NoneInt
    \/ \E c, d \in DOMAIN data : data[c] # NoneInt /\ data[d] # NoneInt /\ data[c] # data[d]

\* C25: a write_data call with a bad input raises, sends nothing to the backend
\* and leaves the write bookmark unchanged; any other call adds exactly one
\* entry per input row.
C25_WriteDataShapes ==
    [][write_call' # write_call =>
         IF BadInput(write_call'.data)
         THEN write_call'.raised /\ stored' = stored /\ bmWrite' = bmWrite /\ bmSeq' = bmSeq
         ELSE /\ ~write_call'.raised
              /\ Len(stored') = Len(stored) + (IF write_call'.data["time"] = NoneInt THEN 1
                                               ELSE write_call'.data["time"])]_vars

\* ------------------------------------------- claims about DatabaseController
\* the sessions bound to a playback store on port p
BoundTo(p) == {id \in SessionIds : sessions[id] # NoSession /\ ~sessions[id].live /\ sessions[id].port = p}

\* C26: for every playback port the stored count is the number of sessions
\* bound to a playback store on that port, the file is set exactly when the
\* count is positive, and a shutdown is sent to a port's backend exactly in the
\* calls in which its count drops to zero.
C26_PortCounts ==
    /\ [](\A p \in PortSet :
            /\ playback_ports[p].count = Cardinality(BoundTo(p))
            /\ (playback_ports[p].file # NoFile) <=> (playback_ports[p].count > 0))
    /\ [][\A p \in PortSet :
            (p \in ctrl_call'.shut) <=> (playback_ports[p].count > 0 /\ playback_ports'[p].count = 0)]_vars

\* C27: when remove(id) has returned, the session mapping has no binding for id.
C27_RemoveUnbinds ==
    (ctrl_call.op = "remove" /\ ~ctrl_call.raised) => sessions[ctrl_call.id] = NoSession

\* ------------------------------------------------ claims about LiveDatabase.save
\* C28: save flushes the live backend only when the dump file has been copied
\* into the save directory; when the live dump file is missing or the copy was
\* not made, save raises without flushing and the data in memory is kept.
C28_FlushOnlyAfterCopy ==
    [][save_call'.n # save_call.n =>
         /\ save_call'.flushed => save_call'.copied
         /\ (~live_dump' \/ ~save_call'.copied) =>
               (save_call'.raised /\ ~save_call'.flushed /\ live_entries' = live_entries)]_vars

\* C29: save never overwrites a file of the save directory: the name it copies
\* to is not the name of a file that was there before the call.
C29_SaveNeverOverwrites ==
    [][(save_call'.n # save_call.n /\ save_call'.copied) =>
         (~save_call'.overwrote /\ save_call'.name \notin save_dir)]_vars

\* ----------------------------------------------------------------- claim C30
\* C30: the bookmark's last_id never decreases, whatever read_data calls (with
\* count or without) and read_snapshot calls are made on the stream.
C30_LastIdNeverDecreases == [][bm'.last_id >= bm.last_id]_vars

\* ----------------------------------------------------------------- claim C31
\* no read call is between its lock check and its return
NoReadInFlight == \A t \in Readers : rpc[t] = "idle"

\* C31: over a series of read_data calls without count, overlapping or not,
\* no entry is returned in two batches, and once the calls have returned every
\* entry after the first read one and up to the bookmark was returned in one.
C31_EachEntryInOneBatch ==
    series.clean =>
        /\ \A e \in 1..MaxEntries : series.returned[e] <= 1
        /\ NoReadInFlight =>
             \A e \in 1..MaxEntries :
                 bm.first_id # 0 /\ bm.first_id < e /\ e <= bm.last_id
                     => series.returned[e] = 1

\* ----------------------------------------------------------------- claim C32
\* a START found the Streamer streaming at its test and returned
StartWhileStreaming(t) ==
    streaming /\ request_pc[t] = "START" /\ request_pc'[t] # "START"

\* C32: a START that finds the Streamer streaming changes neither the flag nor
\* the start time, and between two raisings of the flag the start time is
\* recorded once, also when two STARTs run on separate threads.
C32_SecondStartIsNoOp ==
    /\ [](recorded <= 1)
    /\ [][\A t \in RequestThreads :
            StartWhileStreaming(t) => streaming' /\ streamer_time' = streamer_time]_vars

\* ----------------------------------------------------------------- claim C33
\* a Worker process is sent terminate() in this step
Terminates(w) == w \in terminated' /\ w \notin terminated

\* C33: 'SHUTDOWN' goes to a Worker pipe only when every socket that the
\* Host's cleanup took from the index has run its cleanup, and a Worker process
\* is terminated only after 'SHUTDOWN' was sent to it, the window has passed
\* and it is still alive.
C33_HostCleanupOrder ==
    /\ [](shutdown_sent # {} =>
            \A i \in 1..Len(cleanup_list) : sock_cleaned[cleanup_list[i]])
    /\ [][\A w \in Workers :
            Terminates(w) =>
                w \in shutdown_sent /\ process_alive[w] /\ cleanup_pc = "grace"]_vars

\* ----------------------------------------------------------------- claim C34
\* Node.cleanup has shut down its last socket and HostNode.cleanup signals the
\* Workers
SignalsWorkers == cleanup_pc \in {"pipes", "terminate", "grace", "done"}

\* C34: a cleanup that has begun always gets through its sockets, whatever
\* state each socket was in, and reaches the point where the Workers are
\* signalled.
C34_CleanupTerminates == (cleanup_pc = "next") ~> SignalsWorkers

C36_PackageWithoutRequest ==
    /\ [](~package.request => receive_pc # "raised")
    /\ [][(PackageHandle /\ ~package.request) => UNCHANGED node_handled]_vars
    /\ [][(PackageRun /\ ~package.request) =>
            new_handler.id \in node_sockets' /\ new_handler.id \in node_running']_vars

\* ----------------------------------------------------------------- claim C37
\* C37: after any sequence of write, set_size and read_all calls (none of
\* them under way) the ring is well formed: 0 <= length <= size, head and tail
\* are indexes of the column, head = (tail + length) mod size, the column has
\* exactly size slots, and no write has indexed outside it.
C37_RingWellFormed ==
    read_all_pc = "idle" =>
        /\ 0 <= ring_length /\ ring_length <= ring_size
        /\ 0 <= ring_head /\ ring_head < ring_size
        /\ 0 <= ring_tail /\ ring_tail < ring_size
        /\ ring_head = (ring_tail + ring_length) % ring_size
        /\ Len(ring_data) = ring_size
        /\ ~ring_raised

\* ----------------------------------------------------------------- claim C38
\* the reader is between two reads and its last read returned data
ReaderHoldsValue == buf_read_pc = "idle" /\ buf_returned \notin {NotRead, NoneData}

\* C38: whenever the writer is between two writes (so also once it has
\* stopped) and the reader is not inside a read, the reader's event is set or
\* the value it last returned is the last value written, however the writes
\* and the reads were interleaved.
C38_NoFinalWriteLost ==
    (buf_write_pc = "idle" /\ ReaderHoldsValue) =>
        (buf_event \/ buf_returned = buf_written)

\* a write overlapped a read, the writer is between two writes after at
\* least two of them, and the reader holds the last value with its event clear
C38_Witness ==
    /\ buf_class = "DataBuffer"
    /\ buf_write_pc = "idle"
    /\ ReaderHoldsValue
    /\ buf_overlap
    /\ buf_written >= 2
    /\ ~buf_event
    /\ buf_returned = buf_written

\* ----------------------------------------------------------------- claim C39
\* C39: on a starting Worker no handler has run() called on it twice, whether
\* by the pass of _run over the index, by receive_socket, or by both.
C39_OneReadLoopPerHandler == \A h \in StartHandlers : run_calls[h] <= 1

\* C40: every response start line the encoder emits for a code of add_response
\* (200, 204, 301, 304, 308, 404, 405) is accepted by parse_request_line as a
\* response carrying that code and its full message: once such a response has
\* been encoded and decoded, the parse succeeded and the parsed request has the
\* code and the message of the response that was sent.
IsResponseOf(code) ==
    /\ creq.code = IntToStr(code)
    /\ creq.message = messages(code)
    /\ ~Truthy(creq.method)
C40_ResponseLineAccepted ==
    \A code \in ResponseCodes :
        (codec_pc = "decoded" /\ IsResponseOf(code)) =>
            /\ cparsed.status = "ok"
            /\ cparsed.req.code = IntToStr(code)
            /\ cparsed.req.message = messages(code)

====
